---- MODULE Spec2Model ----
(***************************************************************************)
(* Model of the price-tracking repository (backend/src/core/repository.py) *)
(* of jovcem/voyager: stores, products and prices in a relational          *)
(* database, written by DatabaseRepository and read back by its queries.   *)
(*                                                                         *)
(* Each repository method opens its own connection (get_connection), so    *)
(* each call is its own transaction.  Calls are issued one after another   *)
(* by a single client; an action is one whole call.                        *)
(*                                                                         *)
(* Spec        the repository, called sequentially                         *)
(* SpecConc    get_or_create_store called by several clients at once, one  *)
(*             statement per step                                          *)
(* SpecScraper BaseScraper.scrape() (backend/src/scrapers/base.py)         *)
(* SpecAuto    the auto-scrape command (backend/src/cli/commands.py) and   *)
(*             run_auto_scraper (backend/src/core/auto_scraper.py)         *)
(***************************************************************************)
EXTENDS Integers, Sequences, FiniteSets, TLC

\* ------------------------------------------------------------------ bounds
\* longest batch handed to save_scraped_products
MaxBatch == 2
\* number of repository calls in one run (each call advances the clock)
MaxCalls == 2
\* number of clients calling get_or_create_store concurrently
MaxClients == 2
\* number of provider folders holding a scrape.json
MaxProviders == 2
\* number of entries of one scrape.json
MaxTargets == 2
\* longest price text drawn from the alphabet
MaxPriceLen == 3
\* number of scraper classes in a registry
MaxScrapers == 3

\* ------------------------------------------------------------ Python values
\* Python None / SQL NULL of a text value (image, slug)
None == "None"
\* SQL NULL of products.category_id (serial ids start at 1)
NULL == 0
\* default of the currency parameter / product.get('currency', 'MKD')
DefaultCurrency == "MKD"
\* default of the limit parameter of get_price_history
DefaultLimit == 100

\* dict.get(key) and dict.get(key, default)
Get(d, k, default) == IF k \in DOMAIN d THEN d[k] ELSE default

\* ------------------------------------------------------------------ strings
\* A URL is the sequence of its characters.

\* a text value that may be None: None, or a str
NoText == [none |-> TRUE, chars |-> <<>>]

Text(chars) == [none |-> FALSE, chars |-> chars]

\* str.lower(), for the ASCII letters
lower(s) ==
    LET Upper ==
          <<"A","B","C","D","E","F","G","H","I","J","K","L","M",
            "N","O","P","Q","R","S","T","U","V","W","X","Y","Z">>
        Lower ==
          <<"a","b","c","d","e","f","g","h","i","j","k","l","m",
            "n","o","p","q","r","s","t","u","v","w","x","y","z">>
    IN  [i \in DOMAIN s |->
            IF \E k \in DOMAIN Upper : Upper[k] = s[i]
            THEN Lower[CHOOSE k \in DOMAIN Upper : Upper[k] = s[i]]
            ELSE s[i]]

\* sub in s
Contains(s, sub) ==
    \E i \in 1..(Len(s) - Len(sub) + 1) : SubSeq(s, i, i + Len(sub) - 1) = sub

https == <<"h","t","t","p","s",":","/","/">>
http == <<"h","t","t","p",":","/","/">>
www == <<"w","w","w",".">>
\* "https://Example.com/x"
UrlExampleX == https \o <<"E","x","a","m","p","l","e",".","c","o","m","/","x">>
\* "https://www.example.com/y"
UrlWwwExampleY == https \o www \o <<"e","x","a","m","p","l","e",".","c","o","m","/","y">>
\* "http://example.com"
UrlHttpExample == http \o <<"e","x","a","m","p","l","e",".","c","o","m">>
\* "https://shop.test/list"
UrlShopList == https \o <<"s","h","o","p",".","t","e","s","t","/","l","i","s","t">>
\* "example.com"
NameExample == <<"e","x","a","m","p","l","e",".","c","o","m">>

\* str.find(c, start): least index >= start holding a character of cs, 0 if none
RECURSIVE Find(_, _, _)
Find(s, cs, start) ==
    IF start > Len(s) THEN 0
    ELSE IF s[start] \in cs THEN start
    ELSE Find(s, cs, start + 1)

\* urlparse(url).netloc: drop "scheme:", then if the rest starts with "//"
\* the netloc runs up to the first of "/", "?", "#"; otherwise it is empty
urlparse_netloc(url) ==
    LET i == Find(url, {":"}, 1)
        hasScheme == i > 1 /\ \A j \in 1..(i - 1) :
                        url[j] \in {"h","t","p","s"}
        rest == IF hasScheme THEN SubSeq(url, i + 1, Len(url)) ELSE url
        delim == Find(rest, {"/", "?", "#"}, 3)
    IN  IF Len(rest) >= 2 /\ SubSeq(rest, 1, 2) = <<"/","/">>
        THEN SubSeq(rest, 3, IF delim = 0 THEN Len(rest) ELSE delim - 1)
        ELSE <<>>

\* str.replace(old, ''): every non-overlapping occurrence, left to right
RECURSIVE replace_with_empty(_, _)
replace_with_empty(s, old) ==
    IF Len(s) < Len(old) THEN s
    ELSE IF SubSeq(s, 1, Len(old)) = old
         THEN replace_with_empty(SubSeq(s, Len(old) + 1, Len(s)), old)
         ELSE <<s[1]>> \o replace_with_empty(Tail(s), old)

\* the store named by the whole netloc, "www." included
store_name_with_www(url) == urlparse_netloc(url)

\* store_name of get_or_create_store
store_name(url) == replace_with_empty(urlparse_netloc(url), www)

\* the URLs handed to the repository
SourceUrls == {UrlExampleX, UrlWwwExampleY, UrlHttpExample, UrlShopList}

\* store_name of every URL handed to the repository
StoreNames == [url \in SourceUrls |-> store_name(url)]

\* Python truthiness of a text value: None and '' are falsy
Truthy(v) == v \notin {None, ""}

\* ----------------------------------------------------------------- database
VARIABLES
    stores,          \* committed rows of table stores: [id, name, url]
    categories,      \* committed rows of table categories: [id, slug]
    products,        \* committed rows of table products
    prices,          \* committed rows of table prices
    store_id_seq,    \* last value of the serial sequence of stores.id
    product_id_seq,  \* last value of the serial sequence of products.id
    price_id_seq,    \* last value of the serial sequence of prices.id
    now,             \* database clock: number of calls begun so far
    last,            \* the most recent repository call: arguments and result
    conns,           \* per client: its open get_or_create_store call
    stores_name_unique,  \* whether the schema declares stores.name UNIQUE
    products_url_unique, \* whether it declares products (store_id, url) UNIQUE
    schema_migrations,   \* committed rows of table schema_migrations: versions
    schema               \* versions whose UP SQL is committed and not undone

\* the state the migration tool works on
migrationVars == <<schema_migrations, schema>>

vars == <<stores, categories, products, prices,
          store_id_seq, product_id_seq, price_id_seq, now, last,
          conns, stores_name_unique, products_url_unique, migrationVars>>

\* the tables and their sequences
dbVars == <<stores, categories, products, prices,
            store_id_seq, product_id_seq, price_id_seq>>

\* the state of the concurrent clients of the repository, and the state of
\* the migration tool: what the calls of one client leave alone
connVars == <<conns, stores_name_unique, products_url_unique, migrationVars>>

\* the reference categories: "gpu" and "motherboard" exist, "cpu" does not
SeedCategories == {[id |-> 1, slug |-> "gpu"], [id |-> 2, slug |-> "motherboard"]}

\* CURRENT_TIMESTAMP inside the transaction of the call that begins now
CurrentTimestamp == now + 1

\* DEFAULT of prices.scraped_at: the time of the inserting transaction
prices_scraped_at_default(ts) == ts

\* the lookup answering an unknown slug with the first category
get_category_id_by_slug_with_default(slug) ==
    IF ~Truthy(slug) THEN NULL
    ELSE LET result == {c \in categories : c.slug = slug}
         IN  IF result # {} THEN (CHOOSE c \in result : TRUE).id
             ELSE (CHOOSE c \in categories :
                      \A d \in categories : c.id <= d.id).id

\* get_category_id_by_slug(slug): pure lookup, None for empty/unknown slug
get_category_id_by_slug(slug) ==
    IF ~Truthy(slug) THEN NULL
    ELSE LET result == {c \in categories : c.slug = slug}
         IN  IF result # {} THEN (CHOOSE c \in result : TRUE).id ELSE NULL

\* get_or_create_store(url) on its own connection: the store id it returns
\* and the table and sequence it leaves committed
store_get_or_create(url) ==
    LET name == StoreNames[url]
        result == {s \in stores : s.name = name}
    IN  IF result # {}
        THEN [id |-> (CHOOSE s \in result : TRUE).id,
              stores |-> stores, seq |-> store_id_seq]
        ELSE [id |-> store_id_seq + 1,
              stores |-> stores \cup
                  {[id |-> store_id_seq + 1, name |-> name, url |-> url]},
              seq |-> store_id_seq + 1]

\* ------------------------------------------------- the batch transaction
\* A fault is an infrastructure failure of the batch connection: the
\* statement numbered `at` (the commit counts as one more statement) fails,
\* either with an error that aborts the transaction ("error") or because
\* the connection is lost ("lost").
NoFault == [kind |-> "none", at |-> 0]

\* cur.execute raises: the transaction is already aborted, the connection
\* is gone, or the fault hits this statement
Raises(t, fail) ==
    t.status # "ok" \/ (fail.kind = "error" /\ fail.at = t.n + 1)

\* the state of the connection after a statement raised
AfterRaise(t, fail) ==
    [t EXCEPT !.n = @ + 1,
              !.status = IF @ = "ok" THEN fail.kind ELSE @]

\* lines 361-365 with the wrong column compared: the url is matched
\* against the name, so the lookup never finds the product
select_product_wrong_column(t, store_id, url) ==
    {p \in t.products : p.store_id = store_id /\ p.name = url}

\* lines 361-365 run outside the batch transaction: the lookup does not see
\* the rows the batch has inserted itself
select_product_committed_only(t, store_id, url) ==
    {p \in products : p.store_id = store_id /\ p.url = url}

\* lines 361-365: SELECT id FROM products WHERE store_id = %s AND url = %s,
\* on the batch connection (it sees the rows the batch has inserted)
select_product(t, store_id, url) ==
    {p \in t.products : p.store_id = store_id /\ p.url = url}

\* the price INSERT using the id of the product inserted last on the
\* connection instead of the id of the record's product
insert_price_to_latest_product(t, product, product_id, fail, ts) ==
    IF "price" \notin DOMAIN product THEN t
    ELSE IF Raises(t, fail) THEN AfterRaise(t, fail)
    ELSE [t EXCEPT
            !.n = @ + 1,
            !.price_seq = @ + 1,
            !.prices = @ \cup
                {[id |-> t.price_seq + 1,
                  product_id |-> IF t.product_seq > 0 THEN t.product_seq
                                 ELSE product_id,
                  price |-> product.price,
                  currency |-> Get(product, "currency", DefaultCurrency),
                  scraped_at |-> prices_scraped_at_default(ts)]},
            !.prices_saved = @ + 1]

\* lines 402-408: the price INSERT of one record
insert_price(t, product, product_id, fail, ts) ==
    IF "price" \notin DOMAIN product THEN t            \* KeyError, caught
    ELSE IF Raises(t, fail) THEN AfterRaise(t, fail)  \* caught
    ELSE [t EXCEPT
            !.n = @ + 1,
            !.price_seq = @ + 1,
            !.prices = @ \cup
                {[id |-> t.price_seq + 1,
                  product_id |-> product_id,
                  price |-> product.price,
                  currency |-> Get(product, "currency", DefaultCurrency),
                  scraped_at |-> prices_scraped_at_default(ts)]},
            !.prices_saved = @ + 1]

\* lines 369-371 with the priority reversed: a batch-level category wins
prod_category_batch_first(product, category_id) ==
    IF category_id # NULL \/ "category" \notin DOMAIN product
    THEN category_id
    ELSE get_category_id_by_slug(product.category)

\* lines 369-371, prod_category_id: product-level category > batch-level
\* category_slug
prod_category(product, category_id) ==
    IF "category" \in DOMAIN product
    THEN get_category_id_by_slug(product.category)
    ELSE category_id

\* lines 373-392 writing the image and the category of the record whether
\* or not the record provides them
update_product_overwriting(t, product, product_id, prod_category_id, fail, ts) ==
    IF Raises(t, fail) THEN AfterRaise(t, fail)
    ELSE [t EXCEPT
            !.n = @ + 1,
            !.products = {IF p.id # product_id THEN p
                          ELSE [p EXCEPT
                                  !.image = Get(product, "image", None),
                                  !.category_id = prod_category_id,
                                  !.last_scraped_at = ts] : p \in @}]

\* lines 373-392: the product exists
update_product(t, product, product_id, prod_category_id, fail, ts) ==
    LET image == Get(product, "image", None)
        setImage == Truthy(image)
        setCategory == prod_category_id # NULL
    IN  IF ~(setImage \/ setCategory) THEN t          \* update_fields empty
        ELSE IF Raises(t, fail) THEN AfterRaise(t, fail)
        ELSE [t EXCEPT
                !.n = @ + 1,
                !.products = {IF p.id # product_id THEN p
                              ELSE [p EXCEPT
                                      !.image = IF setImage THEN image ELSE @,
                                      !.category_id = IF setCategory
                                                      THEN prod_category_id
                                                      ELSE @,
                                      !.last_scraped_at = ts] : p \in @}]

\* lines 393-400: the product does not exist
insert_product(t, product, store_id, prod_category_id, fail, ts) ==
    [t EXCEPT
        !.n = @ + 1,
        !.product_seq = @ + 1,
        !.products = @ \cup
            {[id |-> t.product_seq + 1,
              store_id |-> store_id,
              name |-> product.name,
              url |-> product.url,
              image |-> Get(product, "image", None),
              category_id |-> prod_category_id,
              last_scraped_at |-> ts]},
        !.products_saved = @ + 1]

\* lines 359-412: the body of the loop for one record
save_one(t, product, store_id, category_id, fail, ts) ==
    IF "url" \notin DOMAIN product THEN t              \* KeyError, caught
    ELSE IF Raises(t, fail) THEN AfterRaise(t, fail)  \* SELECT raised
    ELSE
      LET t1 == [t EXCEPT !.n = @ + 1]
          result == select_product(t, store_id, product.url)
          prod_category_id == prod_category(product, category_id)
      IN  IF result # {}
          THEN LET product_id == (CHOOSE p \in result : TRUE).id
                   t2 == update_product(t1, product, product_id,
                                        prod_category_id, fail, ts)
               IN  IF t2.status # "ok" THEN t2
                   ELSE insert_price(t2, product, product_id, fail, ts)
          ELSE IF "name" \notin DOMAIN product THEN t1   \* KeyError, caught
          ELSE IF Raises(t1, fail) THEN AfterRaise(t1, fail)
          ELSE insert_price(
                   insert_product(t1, product, store_id,
                                  prod_category_id, fail, ts),
                   product, t1.product_seq + 1, fail, ts)

\* lines 358-412: the loop over the batch
RECURSIVE save_loop(_, _, _, _, _, _)
save_loop(t, batch, store_id, category_id, fail, ts) ==
    IF batch = <<>> THEN t
    ELSE save_loop(save_one(t, Head(batch), store_id, category_id, fail, ts),
                   Tail(batch), store_id, category_id, fail, ts)

\* ------------------------------------------------------------------ inputs
\* scraped records (Python dicts: the keys of a record are its DOMAIN)
Records ==
    { [name |-> "A", price |-> 10, url |-> "u1"],
      [name |-> "B", price |-> 20, url |-> "u2", image |-> "i1",
       currency |-> "EUR"],
      [name |-> "A2", price |-> 20, url |-> "u1", image |-> None,
       category |-> "motherboard"],
      [name |-> "B", price |-> 10, url |-> "u2", category |-> "cpu"],
      [name |-> "A", url |-> "u1"],
      [price |-> 10, url |-> "u2"] }

\* all sequences over S of length at most n
BoundedSeq(S, n) == UNION {[1..k -> S] : k \in 0..n}

Batches == BoundedSeq(Records, MaxBatch)
Slugs == {None, "gpu", "cpu"}
Names == {"A", "B"}
\* a statement error at any statement or at the commit, or the connection
\* lost by the time of the commit
Faults == {NoFault} \cup
    [kind : {"error"}, at : 1..(3 * MaxBatch + 1)] \cup
    [kind : {"lost"}, at : {3 * MaxBatch + 1}]

\* clients that call the repository at the same time, each on the
\* connection its call opens (get_connection)
Clients == 1..MaxClients

\* a client with no call open
Idle == [pc |-> "idle"]

\* a record that has every key the batch loop reads
Valid(product) == {"name", "price", "url"} \subseteq DOMAIN product

\* --------------------------------------------------------------- operations
Init ==
    /\ stores = {}
    /\ categories = SeedCategories
    /\ products = {}
    /\ prices = {}
    /\ store_id_seq = 0
    /\ product_id_seq = 0
    /\ price_id_seq = 0
    /\ now = 0
    /\ last = [op |-> "none"]
    /\ conns = [c \in Clients |-> Idle]
    /\ stores_name_unique = TRUE
    /\ products_url_unique = TRUE
    /\ schema_migrations = {}
    /\ schema = {}

\* get_or_create_store(url), lines 31-65
get_or_create_store(url) ==
    /\ now < MaxCalls
    /\ LET r == store_get_or_create(url)
       IN  /\ stores' = r.stores
           /\ store_id_seq' = r.seq
           /\ last' = [op |-> "get_or_create_store", url |-> url, ret |-> r.id]
    /\ now' = now + 1
    /\ UNCHANGED <<categories, products, prices, product_id_seq, price_id_seq>>

\* lines 352-356: the batch connection as it is opened, with the counters
BatchBegin ==
    [products |-> products, prices |-> prices,
     product_seq |-> product_id_seq, price_seq |-> price_id_seq,
     products_saved |-> 0, prices_saved |-> 0, n |-> 0, status |-> "ok"]

\* a rollback that also takes back the committed rows the transaction
\* had updated
after_batch_undoing_updates(t, committed) ==
    IF committed
    THEN [products |-> t.products, prices |-> t.prices]
    ELSE [products |-> products \cap t.products, prices |-> prices]

\* lines 414-420: the tables after the call.  The rows of the transaction
\* when it was committed; the rows committed before the call when it was
\* rolled back, aborted or lost with its connection
after_batch(t, committed) ==
    IF committed
    THEN [products |-> t.products, prices |-> t.prices]
    ELSE [products |-> products, prices |-> prices]

\* the batch save resolving the store (line 343) before it tests the batch
\* for emptiness (line 339)
save_scraped_products_store_first(batch, source_url, category_slug, fail) ==
    /\ now < MaxCalls
    /\ now' = now + 1
    /\ UNCHANGED categories
    /\ IF batch = <<>>                                 \* lines 339-340
       THEN /\ fail = NoFault
            /\ last' = [op |-> "save_scraped_products", products |-> batch,
                        source_url |-> source_url,
                        category_slug |-> category_slug, fail |-> fail,
                        store_id |-> NULL,
                        outcome |-> "returned", ret |-> <<0, 0>>,
                        committed |-> FALSE]
            /\ stores' = store_get_or_create(source_url).stores
            /\ store_id_seq' = store_get_or_create(source_url).seq
            /\ UNCHANGED <<products, prices, product_id_seq, price_id_seq>>
       ELSE
         \E store \in {store_get_or_create(source_url)},
            category_id \in {IF Truthy(category_slug)
                             THEN get_category_id_by_slug(category_slug)
                             ELSE NULL} :
         \E t \in {save_loop(BatchBegin, batch, store.id, category_id, fail,
                             CurrentTimestamp)} :
         \* conn.commit(): raises when the connection is gone or the fault
         \* hits the commit; on an aborted transaction it is answered with
         \* a rollback and raises nothing.  conn.rollback() in the handler
         \* raises on a lost connection.
         \E commitRaises \in {\/ fail.kind = "lost"
                              \/ t.status = "ok" /\ Raises(t, fail)},
            rollbackRaises \in {fail.kind = "lost"} :
             /\ fail.kind # "none" => (t.status # "ok" \/ commitRaises)
             /\ stores' = store.stores
             /\ store_id_seq' = store.seq
             /\ product_id_seq' = t.product_seq
             /\ price_id_seq' = t.price_seq
             /\ products' =
                  after_batch(t, t.status = "ok" /\ ~commitRaises).products
             /\ prices' =
                  after_batch(t, t.status = "ok" /\ ~commitRaises).prices
             /\ last' = [op |-> "save_scraped_products", products |-> batch,
                         source_url |-> source_url,
                         category_slug |-> category_slug, fail |-> fail,
                         store_id |-> store.id,
                         outcome |-> IF commitRaises /\ rollbackRaises
                                     THEN "raised" ELSE "returned",
                         ret |-> IF ~commitRaises
                                 THEN <<t.products_saved, t.prices_saved>>
                                 ELSE IF rollbackRaises THEN <<>>
                                 ELSE <<0, 0>>,
                         committed |-> t.status = "ok" /\ ~commitRaises]

\* save_scraped_products(products, source_url, category_slug), lines 320-422
save_scraped_products(batch, source_url, category_slug, fail) ==
    /\ now < MaxCalls
    /\ now' = now + 1
    /\ UNCHANGED categories
    /\ IF batch = <<>>                                 \* lines 339-340
       THEN /\ fail = NoFault
            /\ last' = [op |-> "save_scraped_products", products |-> batch,
                        source_url |-> source_url,
                        category_slug |-> category_slug, fail |-> fail,
                        store_id |-> NULL,
                        outcome |-> "returned", ret |-> <<0, 0>>,
                        committed |-> FALSE]
            /\ UNCHANGED <<stores, products, prices,
                           store_id_seq, product_id_seq, price_id_seq>>
       ELSE
         \E store \in {store_get_or_create(source_url)},
            category_id \in {IF Truthy(category_slug)
                             THEN get_category_id_by_slug(category_slug)
                             ELSE NULL} :
         \E t \in {save_loop(BatchBegin, batch, store.id, category_id, fail,
                             CurrentTimestamp)} :
         \* conn.commit(): raises when the connection is gone or the fault
         \* hits the commit; on an aborted transaction it is answered with
         \* a rollback and raises nothing.  conn.rollback() in the handler
         \* raises on a lost connection.
         \E commitRaises \in {\/ fail.kind = "lost"
                              \/ t.status = "ok" /\ Raises(t, fail)},
            rollbackRaises \in {fail.kind = "lost"} :
             /\ fail.kind # "none" => (t.status # "ok" \/ commitRaises)
             /\ stores' = store.stores
             /\ store_id_seq' = store.seq
             /\ product_id_seq' = t.product_seq
             /\ price_id_seq' = t.price_seq
             /\ products' =
                  after_batch(t, t.status = "ok" /\ ~commitRaises).products
             /\ prices' =
                  after_batch(t, t.status = "ok" /\ ~commitRaises).prices
             /\ last' = [op |-> "save_scraped_products", products |-> batch,
                         source_url |-> source_url,
                         category_slug |-> category_slug, fail |-> fail,
                         store_id |-> store.id,
                         outcome |-> IF commitRaises /\ rollbackRaises
                                     THEN "raised" ELSE "returned",
                         ret |-> IF ~commitRaises
                                 THEN <<t.products_saved, t.prices_saved>>
                                 ELSE IF rollbackRaises THEN <<>>
                                 ELSE <<0, 0>>,
                         committed |-> t.status = "ok" /\ ~commitRaises]

\* the upsert that also stores the name passed for an existing product
get_or_create_product_renaming(store_id, name, url, image, default_scraped) ==
    /\ now < MaxCalls
    /\ now' = now + 1
    /\ LET result == {p \in products : p.store_id = store_id /\ p.url = url}
       IN  IF result # {}
           THEN LET product_id == (CHOOSE p \in result : TRUE).id
                IN  /\ default_scraped = NULL
                    /\ products' =
                         {IF p.id = product_id
                          THEN [p EXCEPT !.name = name,
                                         !.image = IF Truthy(image)
                                                   THEN image ELSE @]
                          ELSE p : p \in products}
                    /\ UNCHANGED product_id_seq
                    /\ last' = [op |-> "get_or_create_product",
                                store_id |-> store_id, name |-> name,
                                url |-> url, image |-> image,
                                ret |-> product_id]
           ELSE /\ products' = products \cup
                     {[id |-> product_id_seq + 1, store_id |-> store_id,
                       name |-> name, url |-> url, image |-> image,
                       category_id |-> NULL,
                       last_scraped_at |-> default_scraped]}
                /\ product_id_seq' = product_id_seq + 1
                /\ last' = [op |-> "get_or_create_product",
                            store_id |-> store_id, name |-> name,
                            url |-> url, image |-> image,
                            ret |-> product_id_seq + 1]
    /\ UNCHANGED <<stores, categories, prices, store_id_seq, price_id_seq>>

\* get_or_create_product(store_id, name, url, image), lines 126-169;
\* the INSERT names no last_scraped_at, which takes the column's default
get_or_create_product(store_id, name, url, image, default_scraped) ==
    /\ now < MaxCalls
    /\ now' = now + 1
    /\ LET result == {p \in products : p.store_id = store_id /\ p.url = url}
       IN  IF result # {}
           THEN LET product_id == (CHOOSE p \in result : TRUE).id
                IN  /\ default_scraped = NULL
                    /\ products' =
                         IF Truthy(image)
                         THEN {IF p.id = product_id
                               THEN [p EXCEPT !.image = image]
                               ELSE p : p \in products}
                         ELSE products
                    /\ UNCHANGED product_id_seq
                    /\ last' = [op |-> "get_or_create_product",
                                store_id |-> store_id, name |-> name,
                                url |-> url, image |-> image,
                                ret |-> product_id]
           ELSE /\ products' = products \cup
                     {[id |-> product_id_seq + 1, store_id |-> store_id,
                       name |-> name, url |-> url, image |-> image,
                       category_id |-> NULL,
                       last_scraped_at |-> default_scraped]}
                /\ product_id_seq' = product_id_seq + 1
                /\ last' = [op |-> "get_or_create_product",
                            store_id |-> store_id, name |-> name,
                            url |-> url, image |-> image,
                            ret |-> product_id_seq + 1]
    /\ UNCHANGED <<stores, categories, prices, store_id_seq, price_id_seq>>

\* update_product_name(product_id, name), lines 211-236
update_product_name(product_id, name) ==
    /\ now < MaxCalls
    /\ now' = now + 1
    /\ products' = {IF p.id = product_id THEN [p EXCEPT !.name = name]
                    ELSE p : p \in products}
    /\ last' = [op |-> "update_product_name", product_id |-> product_id,
                name |-> name, ret |-> TRUE]
    /\ UNCHANGED <<stores, categories, prices,
                   store_id_seq, product_id_seq, price_id_seq>>

\* add_price as an upsert: the new row replaces the product's price rows
add_price_overwrite(product_id, price, currency) ==
    /\ now < MaxCalls
    /\ now' = now + 1
    /\ prices' = {pr \in prices : pr.product_id # product_id} \cup
          {[id |-> price_id_seq + 1, product_id |-> product_id,
            price |-> price, currency |-> currency,
            scraped_at |-> prices_scraped_at_default(CurrentTimestamp)]}
    /\ price_id_seq' = price_id_seq + 1
    /\ last' = [op |-> "add_price", product_id |-> product_id,
                price |-> price, currency |-> currency,
                ret |-> price_id_seq + 1]
    /\ UNCHANGED <<stores, categories, products,
                   store_id_seq, product_id_seq>>

\* add_price(product_id, price, currency), lines 240-263
add_price(product_id, price, currency) ==
    /\ now < MaxCalls
    /\ now' = now + 1
    /\ prices' = prices \cup
          {[id |-> price_id_seq + 1, product_id |-> product_id,
            price |-> price, currency |-> currency,
            scraped_at |-> prices_scraped_at_default(CurrentTimestamp)]}
    /\ price_id_seq' = price_id_seq + 1
    /\ last' = [op |-> "add_price", product_id |-> product_id,
                price |-> price, currency |-> currency,
                ret |-> price_id_seq + 1]
    /\ UNCHANGED <<stores, categories, products,
                   store_id_seq, product_id_seq>>

\* ids of the committed rows of a table
Ids(table) == {row.id : row \in table}

GetOrCreateStore ==
    /\ now < MaxCalls
    /\ \E url \in SourceUrls : get_or_create_store(url)
    /\ UNCHANGED connVars

GetOrCreateProduct ==
    /\ now < MaxCalls
    /\ \E store_id \in Ids(stores), name \in Names, url \in {"u1", "u2"},
          image \in {None, "i1"}, default_scraped \in {NULL, CurrentTimestamp} :
            get_or_create_product(store_id, name, url, image, default_scraped)
    /\ UNCHANGED connVars

UpdateProductName ==
    /\ now < MaxCalls
    /\ \E product_id \in Ids(products), name \in Names :
            update_product_name(product_id, name)
    /\ UNCHANGED connVars

AddPrice ==
    /\ now < MaxCalls
    /\ \E product_id \in Ids(products), price \in {10, 20} :
            add_price(product_id, price, DefaultCurrency)
    /\ UNCHANGED connVars

SaveScrapedProducts ==
    /\ now < MaxCalls
    /\ \E batch \in Batches, source_url \in {UrlWwwExampleY, UrlShopList},
          category_slug \in Slugs, fail \in Faults :
            save_scraped_products(batch, source_url, category_slug, fail)
    /\ UNCHANGED connVars

\* save_products(products, url), core/scraper.py lines 134-152: 0 for an
\* empty list (lines 145-147), otherwise the prices_saved of
\* repo.save_scraped_products(products, url), the call `last` then holds
SaveProducts ==
    /\ now < MaxCalls
    /\ \E records \in {<<>>, <<[name |-> "A", price |-> 10, url |-> "u1"]>>},
          url \in {UrlWwwExampleY, UrlShopList} :
            IF records = <<>>
            THEN /\ now' = now + 1
                 /\ last' = [op |-> "save_products", products |-> records,
                             url |-> url, ret |-> 0]
                 /\ UNCHANGED dbVars
            ELSE save_scraped_products(records, url, None, NoFault)
    /\ UNCHANGED connVars

\* ------------------------------------- get_or_create_store, concurrently
\* Several clients call get_or_create_store at the same time.  Each call
\* runs on its own connection, under PostgreSQL's READ COMMITTED default:
\* a SELECT sees the rows committed so far, an INSERT that collides on a
\* unique index with a row another open transaction inserted waits for
\* that transaction to end, and one that collides with a committed row
\* raises UniqueViolation.  A step is one statement of the call.

\* lines 41-45: the store name is derived and the connection opened
get_or_create_store_connect(c, url) ==
    /\ conns[c].pc = "idle"
    /\ conns' = [conns EXCEPT ![c] =
                    [pc |-> "select", url |-> url, store_name |-> StoreNames[url]]]
    /\ UNCHANGED <<dbVars, now, last, stores_name_unique,
                   products_url_unique, migrationVars>>

\* lines 47-53: SELECT id FROM stores WHERE name = %s; a row found is
\* returned (and the connection closed), otherwise the INSERT follows
get_or_create_store_select(c) ==
    /\ conns[c].pc = "select"
    /\ LET result == {s \in stores : s.name = conns[c].store_name}
       IN  IF result # {}
           THEN \E s \in result :
                   conns' = [conns EXCEPT ![c] =
                               [pc |-> "returned", url |-> conns[c].url,
                                store_name |-> conns[c].store_name,
                                ret |-> s.id]]
           ELSE conns' = [conns EXCEPT ![c].pc = "insert"]
    /\ UNCHANGED <<dbVars, now, last, stores_name_unique,
                   products_url_unique, migrationVars>>

\* lines 55-60: INSERT INTO stores (name, url) ... RETURNING id; the
\* serial value is drawn whether or not the row is kept
get_or_create_store_insert(c) ==
    /\ conns[c].pc = "insert"
    /\ LET name == conns[c].store_name
           committed == \E s \in stores : s.name = name
           pending == \E d \in Clients \ {c} :
                          conns[d].pc = "commit" /\ conns[d].store_name = name
       IN  IF stores_name_unique /\ committed
           THEN \* UniqueViolation leaves through `finally: conn.close()`
                conns' = [conns EXCEPT ![c].pc = "raised"]
           ELSE /\ ~(stores_name_unique /\ pending)
                /\ conns' = [conns EXCEPT ![c] =
                               [pc |-> "commit", url |-> conns[c].url,
                                store_name |-> name,
                                store_id |-> store_id_seq + 1]]
    /\ store_id_seq' = store_id_seq + 1
    /\ UNCHANGED <<stores, categories, products, prices,
                   product_id_seq, price_id_seq, now, last,
                   stores_name_unique, products_url_unique, migrationVars>>

\* lines 61-65: conn.commit(), return store_id, conn.close()
get_or_create_store_commit(c) ==
    /\ conns[c].pc = "commit"
    /\ stores' = stores \cup {[id |-> conns[c].store_id,
                               name |-> conns[c].store_name,
                               url |-> conns[c].url]}
    /\ conns' = [conns EXCEPT ![c] =
                    [pc |-> "returned", url |-> conns[c].url,
                     store_name |-> conns[c].store_name,
                     ret |-> conns[c].store_id]]
    /\ UNCHANGED <<categories, products, prices, store_id_seq,
                   product_id_seq, price_id_seq, now, last,
                   stores_name_unique, products_url_unique, migrationVars>>

StoreConnect ==
    \E c \in Clients, url \in SourceUrls : get_or_create_store_connect(c, url)

StoreSelect == \E c \in Clients : get_or_create_store_select(c)

StoreInsert == \E c \in Clients : get_or_create_store_insert(c)

StoreCommit == \E c \in Clients : get_or_create_store_commit(c)

\* the empty database, with or without the unique index on stores.name
InitConc ==
    /\ stores = {}
    /\ categories = SeedCategories
    /\ products = {}
    /\ prices = {}
    /\ store_id_seq = 0
    /\ product_id_seq = 0
    /\ price_id_seq = 0
    /\ now = 0
    /\ last = [op |-> "none"]
    /\ conns = [c \in Clients |-> Idle]
    /\ stores_name_unique \in BOOLEAN
    /\ products_url_unique = TRUE
    /\ schema_migrations = {}
    /\ schema = {}

NextConc == StoreConnect \/ StoreSelect \/ StoreInsert \/ StoreCommit

SpecConc == InitConc /\ [][NextConc]_vars

\* ----------------------------------- save_scraped_products, concurrently
\* Several clients call save_scraped_products at the same time, each with
\* a batch of one record for "https://shop.test/list", whose store exists.
\* Each call runs its statements on its own connection in one transaction
\* (READ COMMITTED): its SELECT sees the committed rows, its rows are seen
\* by the others once it has committed.  With a unique index on products
\* (store_id, url) an INSERT that collides with a row another open
\* transaction inserted waits for that transaction to end, and one that
\* collides with a committed row raises UniqueViolation.

\* lines 339-356: the store is resolved and the batch connection opened
save_scraped_products_begin(c, product) ==
    /\ conns[c].pc = "idle"
    /\ conns' = [conns EXCEPT ![c] =
                    [pc |-> "select", product |-> product,
                     store_id |-> store_get_or_create(UrlShopList).id]]
    /\ UNCHANGED <<dbVars, now, last, stores_name_unique, products_url_unique, migrationVars>>

\* lines 361-365: SELECT id FROM products WHERE store_id = %s AND url = %s.
\* The record has no image and no category, so a product found is not
\* updated (lines 373-392)
save_scraped_products_select(c) ==
    /\ conns[c].pc = "select"
    /\ LET result == {p \in products : /\ p.store_id = conns[c].store_id
                                       /\ p.url = conns[c].product.url}
       IN  \E product_id \in IF result = {} THEN {NULL}
                             ELSE {p.id : p \in result} :
              conns' = [conns EXCEPT ![c] =
                          [pc |-> "insert", product |-> conns[c].product,
                           store_id |-> conns[c].store_id,
                           product_id |-> product_id]]
    /\ UNCHANGED <<dbVars, now, last, stores_name_unique, products_url_unique, migrationVars>>

\* lines 393-408: the product INSERT when the SELECT found no row, and the
\* price INSERT.  A UniqueViolation is caught at line 410 and leaves the
\* transaction aborted; the serial value is drawn whether or not the row
\* is kept
save_scraped_products_insert(c) ==
    /\ conns[c].pc = "insert"
    /\ LET me == conns[c]
           same(p) == p.store_id = me.store_id /\ p.url = me.product.url
           committed == \E p \in products : same(p)
           pending == \E d \in Clients \ {c} :
                          /\ conns[d].pc = "commit"
                          /\ \E p \in conns[d].own_products : same(p)
           creates == me.product_id = NULL
           product_id == IF creates THEN product_id_seq + 1 ELSE me.product_id
           row == [id |-> product_id, store_id |-> me.store_id,
                   name |-> me.product.name, url |-> me.product.url,
                   image |-> None, category_id |-> NULL,
                   last_scraped_at |-> CurrentTimestamp]
           price == [id |-> price_id_seq + 1, product_id |-> product_id,
                     price |-> me.product.price, currency |-> DefaultCurrency,
                     scraped_at |-> prices_scraped_at_default(CurrentTimestamp)]
       IN  IF creates /\ products_url_unique /\ committed
           THEN /\ conns' = [conns EXCEPT ![c] =
                               [pc |-> "commit", product |-> me.product,
                                store_id |-> me.store_id, status |-> "error",
                                own_products |-> {}, own_prices |-> {},
                                products_saved |-> 0, prices_saved |-> 0]]
                /\ product_id_seq' = product_id_seq + 1
                /\ UNCHANGED price_id_seq
           ELSE /\ ~(creates /\ products_url_unique /\ pending)
                /\ conns' = [conns EXCEPT ![c] =
                               [pc |-> "commit", product |-> me.product,
                                store_id |-> me.store_id, status |-> "ok",
                                own_products |-> IF creates THEN {row} ELSE {},
                                own_prices |-> {price},
                                products_saved |-> IF creates THEN 1 ELSE 0,
                                prices_saved |-> 1]]
                /\ product_id_seq' = IF creates THEN product_id_seq + 1
                                     ELSE product_id_seq
                /\ price_id_seq' = price_id_seq + 1
    /\ UNCHANGED <<stores, categories, products, prices, store_id_seq,
                   now, last, stores_name_unique, products_url_unique, migrationVars>>

\* lines 414-420: conn.commit(), which ends an aborted transaction with a
\* rollback and raises nothing, and the return of the counters
save_scraped_products_commit(c) ==
    /\ conns[c].pc = "commit"
    /\ LET me == conns[c]
           ok == me.status = "ok"
       IN  /\ products' = IF ok THEN products \cup me.own_products
                          ELSE products
           /\ prices' = IF ok THEN prices \cup me.own_prices ELSE prices
           /\ conns' = [conns EXCEPT ![c] =
                          [pc |-> "returned", product |-> me.product,
                           store_id |-> me.store_id, committed |-> ok,
                           price_ids |-> IF ok
                                         THEN {pr.id : pr \in me.own_prices}
                                         ELSE {},
                           ret |-> <<me.products_saved, me.prices_saved>>]]
    /\ UNCHANGED <<stores, categories, store_id_seq, product_id_seq,
                   price_id_seq, now, last, stores_name_unique,
                   products_url_unique, migrationVars>>

\* the store of "https://shop.test/list" exists and has no product; the
\* schema has the unique index on products (store_id, url) or not
InitBatch ==
    /\ stores = {[id |-> 1, name |-> StoreNames[UrlShopList],
                  url |-> UrlShopList]}
    /\ categories = SeedCategories
    /\ products = {}
    /\ prices = {}
    /\ store_id_seq = 1
    /\ product_id_seq = 0
    /\ price_id_seq = 0
    /\ now = 0
    /\ last = [op |-> "none"]
    /\ conns = [c \in Clients |-> Idle]
    /\ stores_name_unique = TRUE
    /\ products_url_unique \in BOOLEAN
    /\ schema_migrations = {}
    /\ schema = {}

NextBatch ==
    \E c \in Clients :
       \/ \E product \in {[name |-> "A", price |-> 10, url |-> "u1"],
                          [name |-> "B", price |-> 20, url |-> "u2"]} :
             save_scraped_products_begin(c, product)
       \/ save_scraped_products_select(c)
       \/ save_scraped_products_insert(c)
       \/ save_scraped_products_commit(c)

SpecBatch == InitBatch /\ [][NextBatch]_vars

\* ------------------------------------------------------------------ queries
\* ORDER BY scraped_at ASC instead of DESC
RECURSIVE order_by_scraped_at_asc(_)
order_by_scraped_at_asc(rows) ==
    IF rows = {} THEN {<<>>}
    ELSE LET first == {r \in rows :
                          \A q \in rows : r.scraped_at <= q.scraped_at}
         IN  UNION {{<<r>> \o h : h \in order_by_scraped_at_asc(rows \ {r})} :
                        r \in first}

\* ORDER BY scraped_at DESC: every order of the rows the database may
\* return (rows with equal scraped_at come in any order)
RECURSIVE order_by_scraped_at_desc(_)
order_by_scraped_at_desc(rows) ==
    IF rows = {} THEN {<<>>}
    ELSE LET first == {r \in rows :
                          \A q \in rows : r.scraped_at >= q.scraped_at}
         IN  UNION {{<<r>> \o h : h \in order_by_scraped_at_desc(rows \ {r})} :
                        r \in first}

\* LIMIT n
Limit(h, n) == SubSeq(h, 1, IF Len(h) < n THEN Len(h) ELSE n)

\* get_price_history(product_id, limit), lines 291-316: the lists it may return
get_price_history(product_id, limit) ==
    {Limit(h, limit) :
        h \in order_by_scraped_at_desc(
                  {pr \in prices : pr.product_id = product_id})}

\* get_latest_price(product_id), lines 265-289: the rows it may return
\* (the empty set: it returns None)
get_latest_price(product_id) ==
    {h[1] : h \in {g \in {Limit(f, 1) :
                            f \in order_by_scraped_at_desc(
                                {pr \in prices : pr.product_id = product_id})} :
                       g # <<>>}}

\* ORDER BY name: every order of the rows; which of them the database
\* returns depends on the collation of the name column
RECURSIVE order_by_name(_)
order_by_name(rows) ==
    IF rows = {} THEN {<<>>}
    ELSE UNION {{<<r>> \o h : h \in order_by_name(rows \ {r})} : r \in rows}

\* get_store_by_id(store_id), lines 67-83: the rows it may return (the
\* empty set: it returns None)
get_store_by_id(store_id) == {s \in stores : s.id = store_id}

\* list_stores(), lines 85-98: the lists it may return
list_stores == order_by_name(stores)

\* LEFT JOIN LATERAL (SELECT price, currency, scraped_at FROM prices WHERE
\* product_id = p.id ORDER BY scraped_at DESC LIMIT 1) pr ON true: the
\* rows pr may be; NULLs when the product has no price
lateral_latest_price(product_id) ==
    IF get_latest_price(product_id) = {}
    THEN {[price |-> NULL, currency |-> None, scraped_at |-> NULL]}
    ELSE {[price |-> pr.price, currency |-> pr.currency,
           scraped_at |-> pr.scraped_at] : pr \in get_latest_price(product_id)}

\* get_product_by_id(product_id), lines 171-209: the rows it may return
\* (the name of the category is not modelled)
get_product_by_id(product_id) ==
    {p @@ [store_name |-> s.name, current_price |-> pr.price,
           currency |-> pr.currency, last_price_update |-> pr.scraped_at] :
       <<p, s, pr>> \in
         {t \in {p \in products : p.id = product_id} \X stores
                \X lateral_latest_price(product_id) :
            t[1].store_id = t[2].id}}

\* default of the limit parameter of list_recent_products
DefaultRecentLimit == 20
\* default of the limit parameter of search_products
DefaultSearchLimit == 50

\* SELECT MAX(id) FROM prices GROUP BY product_id
max_id_per_product(rows) ==
    {pr.id : pr \in {q \in rows :
                        \A r \in rows : r.product_id = q.product_id
                                        => r.id <= q.id}}

\* list_recent_products(limit), lines 426-464: the lists it may return
list_recent_products(limit) ==
    LET rows ==
          {[id |-> t[1].id, name |-> t[1].name, url |-> t[1].url,
            store |-> t[2].name, price |-> t[3].price,
            currency |-> t[3].currency, scraped_at |-> t[3].scraped_at] :
             t \in {u \in products \X stores \X prices :
                       /\ u[1].store_id = u[2].id
                       /\ u[1].id = u[3].product_id
                       /\ u[3].id \in max_id_per_product(prices)}}
    IN  {Limit(h, limit) : h \in order_by_scraped_at_desc(rows)}

\* name ILIKE '%query%', for a query without % and _
ilike(name, query) ==
    LET NameChars ==
          ("A" :> <<"A">>) @@ ("A2" :> <<"A", "2">>) @@ ("B" :> <<"B">>)
    IN  Contains(lower(NameChars[name]), lower(query))

\* search_products(query, limit), lines 466-509: the lists it may return
\* (the name of the category is not modelled); a product without price
\* has scraped_at NULL, which NULLS LAST and the value of NULL put last
search_products(query, limit) ==
    LET found == {p \in products : ilike(p.name, query)}
        row(p, s, pr) ==
            [id |-> p.id, name |-> p.name, url |-> p.url, store |-> s.name,
             price |-> pr.price, currency |-> pr.currency,
             scraped_at |-> pr.scraped_at]
        candidates(p) ==
            {row(p, s, pr) : <<s, pr>> \in
                {t \in stores \X lateral_latest_price(p.id) :
                    t[1].id = p.store_id}}
        results ==
            {{f[p] : p \in found} :
                f \in {g \in [found -> UNION {candidates(p) : p \in found}] :
                          \A p \in found : g[p] \in candidates(p)}}
    IN  UNION {{Limit(h, limit) : h \in order_by_scraped_at_desc(rows)} :
                  rows \in results}

\* get_stats counting the products that have a price
get_stats_priced_products ==
    [stores |-> Cardinality(stores), products |-> Cardinality(products),
     prices |-> Cardinality({pr.product_id : pr \in prices})]

\* get_stats(), lines 530-550
get_stats ==
    [stores |-> Cardinality(stores), products |-> Cardinality(products),
     prices |-> Cardinality(prices)]

\* a call of a query method: it opens a connection, runs one SELECT and
\* closes the connection; nothing is written and nothing is committed
query(op, args, rets) ==
    /\ now' = now + 1
    /\ \E ret \in rets : last' = [op |-> op, args |-> args, ret |-> ret]
    /\ UNCHANGED <<dbVars, connVars>>

\* the result of fetchone(): one of the rows, or None
FetchOne(rows) == IF rows = {} THEN {None} ELSE rows

GetStoreById ==
    /\ now < MaxCalls
    /\ \E store_id \in Ids(stores) \cup {store_id_seq + 1} :
          query("get_store_by_id", [store_id |-> store_id],
                FetchOne(get_store_by_id(store_id)))

ListStores ==
    /\ now < MaxCalls
    /\ query("list_stores", <<>>, list_stores)

GetCategoryIdBySlug ==
    /\ now < MaxCalls
    /\ \E slug \in Slugs \cup {""} :
          query("get_category_id_by_slug", [slug |-> slug],
                {get_category_id_by_slug(slug)})

GetProductById ==
    /\ now < MaxCalls
    /\ \E product_id \in Ids(products) \cup {product_id_seq + 1} :
          query("get_product_by_id", [product_id |-> product_id],
                FetchOne(get_product_by_id(product_id)))

GetLatestPrice ==
    /\ now < MaxCalls
    /\ \E product_id \in Ids(products) \cup {product_id_seq + 1} :
          query("get_latest_price", [product_id |-> product_id],
                FetchOne(get_latest_price(product_id)))

GetPriceHistory ==
    /\ now < MaxCalls
    /\ \E product_id \in Ids(products) \cup {product_id_seq + 1},
          limit \in {1, DefaultLimit} :
          query("get_price_history",
                [product_id |-> product_id, limit |-> limit],
                get_price_history(product_id, limit))

ListRecentProducts ==
    /\ now < MaxCalls
    /\ \E limit \in {1, DefaultRecentLimit} :
          query("list_recent_products", [limit |-> limit],
                list_recent_products(limit))

SearchProducts ==
    /\ now < MaxCalls
    /\ \E q \in {<<>>, <<"a">>}, limit \in {1, DefaultSearchLimit} :
          query("search_products", [query |-> q, limit |-> limit],
                search_products(q, limit))

GetStats ==
    /\ now < MaxCalls
    /\ query("get_stats", <<>>, {get_stats})

Next ==
    \/ GetOrCreateStore
    \/ GetOrCreateProduct
    \/ UpdateProductName
    \/ AddPrice
    \/ SaveScrapedProducts
    \/ SaveProducts
    \/ GetStoreById
    \/ ListStores
    \/ GetCategoryIdBySlug
    \/ GetProductById
    \/ GetLatestPrice
    \/ GetPriceHistory
    \/ ListRecentProducts
    \/ SearchProducts
    \/ GetStats

Spec == Init /\ [][Next]_vars

\* ------------------------------------------------- BaseScraper (base.py)
\* One scrape() call of a scraper object.  What the world answers is the
\* environment `env` of the call: the HTTP request, the browser, the disk,
\* the subclass's parser.  An exception is a record of its class and of
\* the call that raised it.

\* the classes an exception is an instance of
Bases ==
    [RequestException |-> {"RequestException", "OSError", "Exception"},
     OSError |-> {"OSError", "Exception"},
     WebDriverException |-> {"WebDriverException", "Exception"},
     AttributeError |-> {"AttributeError", "Exception"},
     TypeError |-> {"TypeError", "Exception"},
     Exception |-> {"Exception"}]

\* `except cls:` catches the exception
Catches(cls, exc) == cls \in Bases[exc.class]

NoException == [class |-> None, origin |-> None]

\* the scraper classes: a subclass keeping REQUIRES_JAVASCRIPT = False
\* (base.py line 25) and NeptunScraper, which sets it (neptun.py line 19);
\* Domain is the class attribute DOMAIN, which can_handle looks for
StaticScraper ==
    [name |-> "StaticScraper", REQUIRES_JAVASCRIPT |-> FALSE,
     Domain |-> Text(<<"s","h","o","p">>)]

NeptunScraper ==
    [name |-> "NeptunScraper", REQUIRES_JAVASCRIPT |-> TRUE,
     Domain |-> Text(<<"n","e","p","t","u","n">>)]

ScraperClasses == {StaticScraper, NeptunScraper}

\* __init__, lines 27-39
NewScraper(cls) == [class |-> cls, soup |-> None, products |-> <<>>, driver |-> None]

\* what parse_products leaves in self.products
ParsedProducts ==
    {<<>>,
     <<[name |-> "A", price |-> 10, url |-> "u1"]>>,
     <<[name |-> "A", price |-> 10, url |-> "u1"],
       [name |-> "B", price |-> 20, url |-> "u2", image |-> "i1"]>>}

\* the answers of the world to one scrape() call
ScrapeEnvs ==
    [get : {"ok", "RequestException"},         \* requests.get, raise_for_status
     chrome : {"ok", "WebDriverException"},    \* webdriver.Chrome(...)
     driver_get : {"ok", "WebDriverException"},\* driver.get, page_source
     save_response : {"ok", "OSError"},        \* makedirs, open, write
     parse : [raises : BOOLEAN, products : ParsedProducts], \* parse_products
     quit : {"ok", "WebDriverException"}]      \* driver.quit()

\* _save_response(html_content), lines 124-148: nothing is caught
save_response(env) ==
    IF env.save_response = "ok" THEN NoException
    ELSE [class |-> env.save_response, origin |-> "_save_response"]

\* the result of a method: the object, the value returned or the exception
\* raised, and the calls of driver.quit() made so far
Returned(self, ret, quits) ==
    [self |-> self, ret |-> ret, exc |-> NoException, quits |-> quits]

Raised(self, exc, quits) ==
    [self |-> self, ret |-> None, exc |-> exc, quits |-> quits]

\* the except clause of a fetch method: the exception is answered with
\* `return False` when the clause catches it, and escapes otherwise
FetchExcept(cls, self, exc) ==
    IF Catches(cls, exc) THEN Returned(self, FALSE, 0) ELSE Raised(self, exc, 0)

\* _fetch_with_requests, lines 54-77: except requests.RequestException
fetch_with_requests(self, env) ==
    IF env.get # "ok"
    THEN FetchExcept("RequestException", self,
                     [class |-> env.get, origin |-> "requests.get"])
    ELSE IF save_response(env) # NoException
    THEN FetchExcept("RequestException", self, save_response(env))
    ELSE Returned([self EXCEPT !.soup = "soup"], TRUE, 0)

\* _fetch_with_selenium, lines 79-122: except Exception
fetch_with_selenium(self, env) ==
    IF env.chrome # "ok"
    THEN FetchExcept("Exception", self,
                     [class |-> env.chrome, origin |-> "webdriver.Chrome"])
    ELSE LET started == [self EXCEPT !.driver = "driver"]
         IN  IF env.driver_get # "ok"
             THEN FetchExcept("Exception", started,
                              [class |-> env.driver_get, origin |-> "driver.get"])
             ELSE IF save_response(env) # NoException
             THEN FetchExcept("Exception", started, save_response(env))
             ELSE Returned([started EXCEPT !.soup = "soup"], TRUE, 0)

\* fetch(), lines 41-52
fetch(self, env) ==
    IF self.class.REQUIRES_JAVASCRIPT
    THEN fetch_with_selenium(self, env)
    ELSE fetch_with_requests(self, env)

\* parse_products(), lines 150-166, as a subclass implements it
parse_products(self, env) ==
    IF env.parse.raises
    THEN Raised(self, [class |-> "Exception", origin |-> "parse_products"], 0)
    ELSE Returned([self EXCEPT !.products = env.parse.products], None, 0)

\* _cleanup after a successful fetch only
cleanup_after_fetch_only(self, env) ==
    IF self.driver # None /\ self.soup # None
    THEN Returned(self, None, 1)
    ELSE Returned(self, None, 0)

\* _cleanup(), lines 187-194: quit() is called when a driver is held, and
\* `except Exception` answers its failure with a message
cleanup(self, env) ==
    IF self.driver # None
    THEN IF env.quit = "ok" THEN Returned(self, None, 1)
         ELSE LET exc == [class |-> env.quit, origin |-> "driver.quit"]
              IN  IF Catches("Exception", exc) THEN Returned(self, None, 1)
                  ELSE Raised(self, exc, 1)
    ELSE Returned(self, None, 0)

\* the try block of scrape(), lines 175-182
scrape_try(self, env) ==
    LET fetched == fetch(self, env)
    IN  IF fetched.exc # NoException THEN fetched
        ELSE IF ~fetched.ret THEN Returned(fetched.self, <<>>, 0)
        ELSE LET parsed == parse_products(fetched.self, env)
             IN  IF parsed.exc # NoException THEN parsed
                 ELSE Returned(parsed.self, parsed.self.products, 0)

\* scrape(), lines 168-185: try ... finally: self._cleanup(); an exception
\* of the finally block replaces the outcome of the try block
scrape_result(self, env) ==
    LET body == scrape_try(self, env)
        cleaned == cleanup(body.self, env)
    IN  IF cleaned.exc # NoException THEN cleaned
        ELSE [body EXCEPT !.quits = cleaned.quits]

\* one scraper object is made and its scrape() called
scrape(cls, env) ==
    /\ last' = [op |-> "scrape", env |-> env,
                fetched |-> fetch(NewScraper(cls), env),
                result |-> scrape_result(NewScraper(cls), env)]
    /\ UNCHANGED <<dbVars, now, connVars>>

Scrape ==
    /\ last.op = "none"
    /\ \E cls \in ScraperClasses, env \in ScrapeEnvs : scrape(cls, env)

NextScraper == Scrape

SpecScraper == Init /\ [][NextScraper]_vars

\* ------------- dispatcher (scrapers/__init__.py, core/scraper.py)
\* The registry of scraper classes, the choice of the class for a url, and
\* scrape_url, which runs the chosen scraper or the generic extractor.

\* the result of a call: the value returned, or the exception raised
Ok(ret) == [exc |-> NoException, ret |-> ret]

Fail(class, origin) == [exc |-> [class |-> class, origin |-> origin], ret |-> None]

\* BaseScraper.can_handle(url), base.py lines 233-246; url.lower() raises
\* AttributeError on a url of None
can_handle(cls, url) ==
    IF cls.Domain.none THEN Ok(FALSE)
    ELSE IF url.none THEN Fail("AttributeError", "can_handle")
    ELSE Ok(Contains(lower(url.chars), cls.Domain.chars))

\* a subclass that leaves DOMAIN = None (base.py line 22)
UnsetScraper ==
    [name |-> "UnsetScraper", REQUIRES_JAVASCRIPT |-> FALSE, Domain |-> NoText]

\* the None that get_scraper_for_url returns
NoScraper == [name |-> None, REQUIRES_JAVASCRIPT |-> FALSE, Domain |-> NoText]

\* the registry, scrapers/__init__.py lines 12-17
SCRAPERS == <<NeptunScraper>>

\* the loop returning the last class that can handle the url
RECURSIVE get_scraper_for_url_last_match(_, _)
get_scraper_for_url_last_match(scrapers, url) ==
    IF scrapers = <<>> THEN Ok(NoScraper)
    ELSE LET handled == can_handle(scrapers[Len(scrapers)], url)
         IN  IF handled.exc # NoException THEN handled
             ELSE IF handled.ret THEN Ok(scrapers[Len(scrapers)])
             ELSE get_scraper_for_url_last_match(
                      SubSeq(scrapers, 1, Len(scrapers) - 1), url)

\* get_scraper_for_url(url), scrapers/__init__.py lines 20-35, over the
\* registry `scrapers`: the first class whose can_handle(url) is true
RECURSIVE get_scraper_for_url(_, _)
get_scraper_for_url(scrapers, url) ==
    IF scrapers = <<>> THEN Ok(NoScraper)
    ELSE LET handled == can_handle(Head(scrapers), url)
         IN  IF handled.exc # NoException THEN handled
             ELSE IF handled.ret THEN Ok(Head(scrapers))
             ELSE get_scraper_for_url(Tail(scrapers), url)

\* product_containers[:50], scraper.py line 77
GenericLimit == 50

\* the record _generic_scrape makes of a container, lines 80-120: added
\* only when a name and a price were found
generic_records(containers, url) ==
    LET found == SelectSeq(containers,
                           LAMBDA r : Truthy(Get(r, "name", None))
                                      /\ Get(r, "price", 0) # 0)
    IN  [i \in DOMAIN found |->
            [name |-> found[i].name, price |-> found[i].price,
             url |-> Get(found[i], "url", url.chars)]]

\* _generic_scrape(url), scraper.py lines 39-131: `except
\* requests.RequestException` and `except Exception` both return []
generic_scrape(url, page) ==
    IF page.get # "ok"
    THEN LET exc == [class |-> page.get, origin |-> "requests.get"]
         IN  IF Catches("RequestException", exc) \/ Catches("Exception", exc)
             THEN Ok(<<>>)
             ELSE [exc |-> exc, ret |-> None]
    ELSE IF page.parse.raises
    THEN LET exc == [class |-> "Exception", origin |-> "BeautifulSoup"]
         IN  IF Catches("RequestException", exc) \/ Catches("Exception", exc)
             THEN Ok(<<>>)
             ELSE [exc |-> exc, ret |-> None]
    ELSE Ok(generic_records(
                SubSeq(page.parse.products, 1,
                       IF Len(page.parse.products) < GenericLimit
                       THEN Len(page.parse.products) ELSE GenericLimit),
                url))

\* scrape_url without the generic extractor
scrape_url_without_fallback(url, page) ==
    LET found == get_scraper_for_url(SCRAPERS, url)
    IN  IF found.exc # NoException THEN found
        ELSE IF found.ret # NoScraper
        THEN LET scraped == scrape_result(NewScraper(found.ret), page)
             IN  [exc |-> scraped.exc, ret |-> scraped.ret]
        ELSE Ok(<<>>)

\* scrape_url(url), scraper.py lines 14-36; `page` is what the world
\* answers to the scraping of that url
scrape_url(url, page) ==
    LET found == get_scraper_for_url(SCRAPERS, url)
    IN  IF found.exc # NoException THEN found
        ELSE IF found.ret # NoScraper
        THEN LET scraped == scrape_result(NewScraper(found.ret), page)
             IN  [exc |-> scraped.exc, ret |-> scraped.ret]
        ELSE generic_scrape(url, page)

\* "https://neptun.mk/gpu"
UrlNeptunGpu == https \o <<"n","e","p","t","u","n",".","m","k","/","g","p","u">>
\* "https://shop.test/neptun"
UrlShopNeptun ==
    https \o <<"s","h","o","p",".","t","e","s","t","/","n","e","p","t","u","n">>

\* the urls handed to the dispatcher
DispatchUrls ==
    {UrlNeptunGpu, UrlShopNeptun, UrlShopList, UrlExampleX,
     \* "https://NEPTUN.mk/tv"
     https \o <<"N","E","P","T","U","N",".","m","k","/","t","v">>}

\* one call of scrape_url(url)
ScrapeUrl ==
    /\ last.op = "none"
    /\ \E url \in DispatchUrls, page \in ScrapeEnvs :
          last' = [op |-> "scrape_url", url |-> url, page |-> page,
                   scraper_class |-> get_scraper_for_url(SCRAPERS, Text(url)),
                   result |-> scrape_url(Text(url), page)]
    /\ UNCHANGED <<dbVars, now, connVars>>

\* one call of get_scraper_for_url(url) under a registry
GetScraperForUrl ==
    /\ last.op = "none"
    /\ \E scrapers \in BoundedSeq(ScraperClasses \cup {UnsetScraper},
                                   MaxScrapers),
          url \in DispatchUrls :
          last' = [op |-> "get_scraper_for_url", SCRAPERS |-> scrapers,
                   url |-> url,
                   result |-> get_scraper_for_url(scrapers, Text(url))]
    /\ UNCHANGED <<dbVars, now, connVars>>

\* ------------------------------------ auto scraper (core/auto_scraper.py)
\* One run of the auto-scrape command.  The provider folders found, the
\* content of each scrape.json, the pages behind the target urls and the
\* state of the database are the environment of the run.

\* the page urls of the targets
UrlGpu == "https://neptun.mk/gpu"
UrlList == "https://shop.test/list"
\* target.get('url') as a text: None, or the str
AsText(url) ==
    IF url = None THEN NoText
    ELSE Text(((UrlGpu :> UrlNeptunGpu) @@ (UrlList :> UrlShopList))[url])

\* entries of a scrape.json: JSON objects (Python dicts) and a JSON string
TargetEntries ==
    {[type |-> "dict",
      value |-> [url |-> UrlGpu, category |-> "gpu",
                 description |-> "GPUs", enabled |-> TRUE]],
     [type |-> "dict", value |-> [url |-> UrlList, enabled |-> TRUE]],
     [type |-> "dict", value |-> [url |-> UrlList, category |-> "cpu"]],
     [type |-> "dict", value |-> [url |-> UrlGpu, enabled |-> FALSE]],
     [type |-> "str"]}

\* discover_scrape_configs(), lines 11-28: iterdir raises, or the list of
\* providers is returned; a provider is named by its place in the list.
\* load_scrape_config(config_path), lines 31-42: open or json.load raises,
\* or the parsed list is returned
Discovered ==
    LET ProviderConfigs ==
          {[raises |-> TRUE, targets |-> <<>>]} \cup
          {[raises |-> FALSE, targets |-> t] :
              t \in BoundedSeq(TargetEntries, MaxTargets)}
    IN  {[raises |-> TRUE, configs |-> <<>>]} \cup
        {[raises |-> FALSE, configs |-> c] :
            c \in BoundedSeq(ProviderConfigs, MaxProviders)}

\* what the world answers to the scraping of a page: the fetch fails, the
\* parsing raises, the page holds no record, the page holds two records
PageOutcomes ==
    {[get |-> g, chrome |-> c, driver_get |-> "ok", save_response |-> "ok",
      parse |-> p, quit |-> "ok"] :
       <<g, c, p>> \in
         {<<"RequestException", "WebDriverException",
            [raises |-> FALSE, products |-> <<>>]>>,
          <<"ok", "ok", [raises |-> TRUE, products |-> <<>>]>>,
          <<"ok", "ok", [raises |-> FALSE, products |-> <<>>]>>,
          <<"ok", "ok",
            [raises |-> FALSE,
             products |-> <<[name |-> "A", price |-> 10, url |-> "u1"],
                            [name |-> "B", price |-> 20, url |-> "u2"]>>]>>}}

\* the environment of a run: the pages, and whether the database answers
AutoEnvs == [site : [{UrlGpu, UrlList} -> PageOutcomes], db : {"ok", "down"}]

\* a call passing a keyword argument the function has no parameter for
\* raises TypeError before the function body runs
BindRaises(params, keywords) == ~(keywords \subseteq params)

\* save_products(products, url), scraper.py lines 134-152: returns the
\* prices_saved of save_scraped_products, which the run only prints;
\* connecting to a database that is down raises
save_products(records, url, env) ==
    IF records = <<>> THEN Ok(0)
    ELSE IF env.db = "down" THEN Fail("Exception", "get_connection")
    ELSE Ok(Len(records))

\* auto_scraper.py line 98: scrape_url(url, category=category), against
\* def scrape_url(url), scraper.py line 14
call_scrape_url(url, category, env) ==
    IF BindRaises({"url"}, {"category"})
    THEN Fail("TypeError", "scrape_url")
    ELSE scrape_url(AsText(url), Get(env.site, url, None))

\* auto_scraper.py line 105: save_products(products, url, category=category),
\* against def save_products(products, url), scraper.py line 134
call_save_products(records, url, category, env) ==
    IF BindRaises({"products", "url"}, {"category"})
    THEN Fail("TypeError", "save_products")
    ELSE save_products(records, url, env)

\* lines 62-69, with the log of the targets attempted (line 98 reached;
\* whether the scrape or the save raised, whether save_products was called)
NewRun(configs) ==
    [results |-> [total_providers |-> Len(configs), total_urls |-> 0,
                  successful_scrapes |-> 0, failed_scrapes |-> 0,
                  total_products |-> 0, details |-> <<>>],
     attempts |-> <<>>, events |-> <<>>]

\* lines 108-117
record_success(run, provider_name, category, url, n) ==
    [run EXCEPT !.results.successful_scrapes = @ + 1,
                !.results.total_products = @ + n,
                !.results.details =
                    Append(@, [provider |-> provider_name,
                               category |-> category, url |-> url,
                               status |-> "success", products_found |-> n])]

\* lines 118-127
record_no_products(run, provider_name, category, url) ==
    [run EXCEPT !.results.failed_scrapes = @ + 1,
                !.results.details =
                    Append(@, [provider |-> provider_name,
                               category |-> category, url |-> url,
                               status |-> "no_products", products_found |-> 0])]

\* the except clause appending the entry without counting the failure
record_error_uncounted(run, provider_name, category, url, exc) ==
    [run EXCEPT !.results.details =
                    Append(@, [provider |-> provider_name,
                               category |-> category, url |-> url,
                               status |-> "error", error |-> exc.class])]

\* lines 129-138: except Exception as e
record_error(run, provider_name, category, url, exc) ==
    [run EXCEPT !.results.failed_scrapes = @ + 1,
                !.results.details =
                    Append(@, [provider |-> provider_name,
                               category |-> category, url |-> url,
                               status |-> "error", error |-> exc.class])]

\* lines 87-140: one enabled target
scrape_target(provider_name, target, env, save_to_db, run) ==
    LET url == Get(target, "url", None)
        category == Get(target, "category", "unknown")
        \* lines 101-138, once line 98 has returned or raised
        after(scraped) ==
            LET saved ==
                    IF scraped.exc = NoException /\ scraped.ret # <<>>
                       /\ save_to_db
                    THEN call_save_products(scraped.ret, url, category, env)
                    ELSE Ok(0)
                raised == scraped.exc # NoException \/ saved.exc # NoException
                attempted ==
                    [run EXCEPT
                        !.attempts =
                            Append(@, [provider |-> provider_name,
                                       url |-> url, raised |-> raised,
                                       \* line 105 was reached
                                       saving |-> /\ scraped.exc = NoException
                                                  /\ scraped.ret # <<>>
                                                  /\ save_to_db]),
                        !.events =
                            Append(@, [at |-> "start",
                                       provider |-> provider_name,
                                       url |-> url])]
            IN  IF scraped.exc # NoException
                THEN record_error(attempted, provider_name, category, url,
                                  scraped.exc)
                ELSE IF scraped.ret # <<>>
                THEN IF saved.exc # NoException
                     THEN record_error(attempted, provider_name, category,
                                       url, saved.exc)
                     ELSE record_success(attempted, provider_name, category,
                                         url, Len(scraped.ret))
                ELSE record_no_products(attempted, provider_name, category,
                                        url)
        recorded == after(call_scrape_url(url, category, env))
    IN  [recorded EXCEPT !.events =
             Append(@, [at |-> "end", provider |-> provider_name, url |-> url])]

\* the loop over the targets left at the first target that raised
RECURSIVE scrape_targets_stop_on_error(_, _, _, _, _)
scrape_targets_stop_on_error(provider_name, targets, env, save_to_db, run) ==
    IF targets = <<>> THEN run
    ELSE LET next == scrape_target(provider_name, Head(targets), env,
                                   save_to_db, run)
         IN  IF next.attempts[Len(next.attempts)].raised THEN next
             ELSE scrape_targets_stop_on_error(provider_name, Tail(targets),
                                               env, save_to_db, next)

\* the loop over the targets taking the last target first
RECURSIVE scrape_targets_reversed(_, _, _, _, _)
scrape_targets_reversed(provider_name, targets, env, save_to_db, run) ==
    IF targets = <<>> THEN run
    ELSE scrape_target(provider_name, Head(targets), env, save_to_db,
                       scrape_targets_reversed(provider_name, Tail(targets),
                                               env, save_to_db, run))

\* lines 87-140: for target in enabled_targets
RECURSIVE scrape_targets(_, _, _, _, _)
scrape_targets(provider_name, targets, env, save_to_db, run) ==
    IF targets = <<>> THEN run
    ELSE scrape_targets(provider_name, Tail(targets), env, save_to_db,
                        scrape_target(provider_name, Head(targets), env,
                                      save_to_db, run))

\* a target dict without the key taken as enabled: t.get('enabled', True)
enabled_by_default(t) == Get(t, "enabled", TRUE)

\* t.get('enabled', False) of a target dict
enabled(t) == Get(t, "enabled", FALSE)

\* the values of the entries that are dicts
Dicts(entries) ==
    LET dicts == SelectSeq(entries, LAMBDA e : e.type = "dict")
    IN  [i \in DOMAIN dicts |-> dicts[i].value]

\* the provider's entries that are not dicts are passed over
process_provider_skips_bad_entries(provider_name, config, env, save_to_db, run) ==
    IF config.raises THEN run
    ELSE LET enabled_targets == SelectSeq(Dicts(config.targets), enabled)
         IN  scrape_targets(provider_name, enabled_targets, env, save_to_db,
                 [run EXCEPT !.results.total_urls = @ + Len(enabled_targets)])

\* lines 72-144: one provider.  load_scrape_config raising, or t.get on an
\* entry that is no dict (AttributeError at line 81), leaves through the
\* except of line 142 before total_urls is touched
process_provider(provider_name, config, env, save_to_db, run) ==
    IF config.raises THEN run
    ELSE IF \E i \in DOMAIN config.targets : config.targets[i].type # "dict"
    THEN run
    ELSE LET enabled_targets == SelectSeq(Dicts(config.targets), enabled)
         IN  scrape_targets(provider_name, enabled_targets, env, save_to_db,
                 [run EXCEPT !.results.total_urls = @ + Len(enabled_targets)])

\* lines 72-144: for provider_name, config_path in configs
RECURSIVE process_providers(_, _, _, _, _)
process_providers(configs, i, env, save_to_db, run) ==
    IF i > Len(configs) THEN run
    ELSE process_providers(configs, i + 1, env, save_to_db,
                           process_provider(i, configs[i], env, save_to_db, run))

\* run_auto_scraper(save_to_db), lines 45-157
run_auto_scraper(discovered, env, save_to_db) ==
    IF discovered.raises
    THEN [exc |-> [class |-> "OSError", origin |-> "discover_scrape_configs"],
          ret |-> None, attempts |-> <<>>, events |-> <<>>]
    ELSE LET run == process_providers(discovered.configs, 1, env, save_to_db,
                                      NewRun(discovered.configs))
         IN  [exc |-> NoException, ret |-> run.results,
              attempts |-> run.attempts, events |-> run.events]

\* the command exiting with an error only when the run raised
exit_code_only_on_exception(run) ==
    IF run.exc # NoException THEN 1 ELSE 0

\* cli/commands.py lines 313-325: sys.exit(1) when every scrape failed
\* (SystemExit passes `except Exception`) and when the run raised
exit_code(run) ==
    IF run.exc # NoException THEN 1
    ELSE IF run.ret.total_urls > 0 /\ run.ret.successful_scrapes = 0 THEN 1
    ELSE 0

\* the command doing nothing under --dry-run: an empty report
auto_scrape_dry_run_skips(save_db, dry_run, discovered, env) ==
    /\ \E run \in {IF dry_run
                   THEN [exc |-> NoException, ret |-> NewRun(<<>>).results,
                         attempts |-> <<>>, events |-> <<>>]
                   ELSE run_auto_scraper(discovered, env, save_db)} :
          last' = [op |-> "auto_scrape", save_db |-> save_db,
                   dry_run |-> dry_run, discovered |-> discovered,
                   env |-> env, run |-> run, exit_code |-> exit_code(run)]
    /\ UNCHANGED <<dbVars, now, connVars>>

\* auto_scrape(save_db, dry_run), cli/commands.py lines 294-325: the
\* command of one process, which ends with it (line 329)
auto_scrape(save_db, dry_run, discovered, env) ==
    /\ \E run \in {run_auto_scraper(discovered, env,
                                    IF dry_run THEN FALSE ELSE save_db)} :
          last' = [op |-> "auto_scrape", save_db |-> save_db,
                   dry_run |-> dry_run, discovered |-> discovered,
                   env |-> env, run |-> run, exit_code |-> exit_code(run)]
    /\ UNCHANGED <<dbVars, now, connVars>>

AutoScrape ==
    /\ last.op = "none"
    /\ \E save_db \in BOOLEAN, dry_run \in BOOLEAN,
          discovered \in Discovered, env \in AutoEnvs :
            auto_scrape(save_db, dry_run, discovered, env)

NextAuto == AutoScrape \/ ScrapeUrl \/ GetScraperForUrl \/ Scrape

SpecAuto == Init /\ [][NextAuto]_vars

\* ------------------------------------------------- price text to number
\* BaseScraper._extract_price (scrapers/base.py) and
\* NeptunScraper._parse_price_to_int (scrapers/neptun/neptun.py).  A price
\* text is None or a sequence of characters; a number is its decimal
\* digits and the count of them that follow the point.

Digits == {"0","1","2","3","4","5","6","7","8","9"}


\* A character outside ASCII is written by its code point: "U+20AC" is the
\* euro sign, "U+00A3" the pound sign, "U+0434" "U+0435" "U+043D" the
\* three letters of the denar suffix.

\* the value of a non-empty sequence of digits
RECURSIVE ToNat(_)
ToNat(ds) ==
    LET DigitValue ==
          [c \in Digits |->
              CASE c = "0" -> 0 [] c = "1" -> 1 [] c = "2" -> 2 [] c = "3" -> 3
                [] c = "4" -> 4 [] c = "5" -> 5 [] c = "6" -> 6 [] c = "7" -> 7
                [] c = "8" -> 8 [] c = "9" -> 9]
    IN  IF ds = <<>> THEN 0
        ELSE 10 * ToNat(SubSeq(ds, 1, Len(ds) - 1)) + DigitValue[ds[Len(ds)]]

\* str.replace(old, new) for a single character old and a text new
RECURSIVE replace_char(_, _, _)
replace_char(s, old, new) ==
    IF s = <<>> THEN <<>>
    ELSE (IF s[1] = old THEN new ELSE <<s[1]>>) \o replace_char(Tail(s), old, new)

\* str.strip(): the text between its first and its last character that is
\* not whitespace (the space, of the alphabet used here)
strip(s) ==
    LET kept == {i \in DOMAIN s : s[i] # " "}
    IN  IF kept = {} THEN <<>>
        ELSE SubSeq(s, CHOOSE i \in kept : \A j \in kept : i <= j,
                       CHOOSE i \in kept : \A j \in kept : j <= i)

\* the first index from i on that holds no digit (Len(s) + 1 if none):
\* where a greedy \d+ or \d* that starts at i ends
RECURSIVE DigitsEnd(_, _)
DigitsEnd(s, i) ==
    IF i > Len(s) \/ s[i] \notin Digits THEN i ELSE DigitsEnd(s, i + 1)

\* a price: None, or the number mantissa / 10^decimals
NoPrice == [none |-> TRUE, mantissa |-> 0, decimals |-> 0]

Number(mantissa, decimals) ==
    [none |-> FALSE, mantissa |-> mantissa, decimals |-> decimals]

\* re.search(r'\d+\.?\d*', s) and float(match.group()): the leftmost
\* digit starts the match, which takes the digits, one point if it follows
\* them, and the digits after that point
search_float(s) ==
    LET a == Find(s, Digits, 1)
        b == DigitsEnd(s, a)
        dot == b <= Len(s) /\ s[b] = "."
        c == IF dot THEN DigitsEnd(s, b + 1) ELSE b
    IN  IF a = 0 THEN NoPrice
        ELSE IF dot
        THEN Number(ToNat(SubSeq(s, a, b - 1) \o SubSeq(s, b + 1, c - 1)),
                    c - b - 1)
        ELSE Number(ToNat(SubSeq(s, a, b - 1)), 0)

\* _extract_price(price_text), base.py lines 196-219
extract_price(price_text) ==
    IF price_text.none \/ price_text.chars = <<>> THEN NoPrice
    ELSE LET clean_text ==
                 strip(replace_char(replace_char(replace_char(
                     price_text.chars, "$", <<>>), "U+20AC", <<>>), "U+00A3", <<>>))
         IN  search_float(replace_char(clean_text, ",", <<".">>))

\* int(s) for a text of the alphabet used here (no sign, no underscore):
\* the value of the digits between surrounding whitespace, ValueError
\* (None here) for anything else
int(s) ==
    IF strip(s) # <<>> /\ \A i \in DOMAIN strip(s) : strip(s)[i] \in Digits
    THEN Number(ToNat(strip(s)), 0)
    ELSE NoPrice

\* _parse_price_to_int(price_text), neptun/neptun.py lines 21-39; the
\* AttributeError of None.replace and the ValueError of int are caught
parse_price_to_int(price_text) ==
    IF price_text.none THEN NoPrice
    ELSE LET cleaned ==
                 strip(replace_with_empty(replace_with_empty(
                     price_text.chars, <<"U+0434", "U+0435", "U+043D">>), <<"M","K","D">>))
         IN  int(replace_char(replace_char(cleaned, ",", <<>>), ".", <<>>))

\* ------------------------------------------------ the container parsers
\* A product container of a page: the text of its name element and of its
\* price elements (None when the element is missing, get_text(strip=True)
\* otherwise), the href of its first link (absolute here, so that urljoin
\* returns it as it is; None when there is no link), and whether a call
\* made while it is processed raises.

\* NeptunScraper.parse_products of scrapers/neptun.py, the module that
\* `from .neptun import NeptunScraper` loads: lines 41-83.  The price of a
\* record is the text of the price element
neptun_parse_products(containers, url) ==
    LET truthy(t) == ~t.none /\ t.chars # <<>>
        price(c) == IF truthy(c.happy) THEN c.happy ELSE c.regular
        added == SelectSeq(containers,
                           LAMBDA c : /\ ~c.raises
                                      /\ truthy(c.name)
                                      /\ truthy(price(c)))
    IN  [i \in DOMAIN added |->
            [name |-> added[i].name.chars,
             price |-> price(added[i]),
             url |-> IF truthy(added[i].href) THEN added[i].href.chars
                     ELSE url.chars]]

\* NeptunScraper.parse_products of scrapers/neptun/neptun.py, lines 62-117
\* (the image is left out): the price is _parse_price_to_int of the text,
\* and a price of None or 0 is no price
neptun_int_parse_products(containers, url) ==
    LET truthy(t) == ~t.none /\ t.chars # <<>>
        found(n) == ~n.none /\ n.mantissa # 0
        happy(c) == IF c.happy.none THEN NoPrice
                    ELSE parse_price_to_int(c.happy)
        price(c) == IF found(happy(c)) THEN happy(c)
                    ELSE IF c.regular.none THEN happy(c)
                    ELSE parse_price_to_int(c.regular)
        added == SelectSeq(containers,
                           LAMBDA c : /\ ~c.raises
                                      /\ truthy(c.name)
                                      /\ found(price(c)))
    IN  [i \in DOMAIN added |->
            [name |-> added[i].name.chars,
             price |-> price(added[i]),
             url |-> IF truthy(added[i].href) THEN added[i].href.chars
                     ELSE url.chars]]

\* the loop of _generic_scrape, scraper.py lines 77-121: the price is
\* float(re.search(r'[\d,]+\.?\d*', price_text.replace(',', '')).group()),
\* and a price of None or 0.0 is no price.  The generic extractor looks for
\* one price element, here the regular one
generic_parse_containers(containers, url) ==
    LET truthy(t) == ~t.none /\ t.chars # <<>>
        found(n) == ~n.none /\ n.mantissa # 0
        price(c) == IF c.regular.none THEN NoPrice
                    ELSE search_float(replace_char(c.regular.chars, ",", <<>>))
        kept == SubSeq(containers, 1,
                       IF Len(containers) < GenericLimit
                       THEN Len(containers) ELSE GenericLimit)
        added == SelectSeq(kept,
                           LAMBDA c : /\ ~c.raises
                                      /\ truthy(c.name)
                                      /\ found(price(c)))
    IN  [i \in DOMAIN added |->
            [name |-> added[i].name.chars,
             price |-> price(added[i]),
             url |-> IF truthy(added[i].href) THEN added[i].href.chars
                     ELSE url.chars]]

\* "1,234.50", "8.999", "1,234", "abc"
Text1234_50 == <<"1", ",", "2", "3", "4", ".", "5", "0">>
Text8_999 == <<"8", ".", "9", "9", "9">>
Text1_234 == <<"1", ",", "2", "3", "4">>
PriceTexts ==
    {NoText} \cup
    {Text(t) : t \in {Text1234_50, Text8_999, Text1_234, <<"a", "b", "c">>}
                     \cup BoundedSeq({"1", "0", ",", ".", " ", "a", "$"},
                                     MaxPriceLen)}

\* one call of _extract_price on a scraper object
ExtractPrice ==
    /\ last.op = "price_text"
    /\ last' = [op |-> "_extract_price", price_text |-> last.price_text,
                ret |-> extract_price(last.price_text)]
    /\ UNCHANGED <<dbVars, now, connVars>>

\* one call of _parse_price_to_int on a NeptunScraper object
ParsePriceToInt ==
    /\ last.op = "price_text"
    /\ last' = [op |-> "_parse_price_to_int", price_text |-> last.price_text,
                ret |-> parse_price_to_int(last.price_text)]
    /\ UNCHANGED <<dbVars, now, connVars>>

\* the containers of a page are parsed by one of the three parsers; the
\* page holds a container whose regular price element holds the price
\* text (the other parts vary), alone or before or after a good container:
\* one with a name, a price of 10 and a link
ParseProducts ==
    LET GoodContainer ==
          [name |-> Text(<<"B">>), happy |-> NoText,
           regular |-> Text(<<"1", "0">>), href |-> Text(<<"u", "2">>),
           raises |-> FALSE]
        Containers ==
          [name : {NoText, Text(<<>>), Text(<<"A">>)},
           happy : {NoText, Text(<<"8", ".", "9", "9", "9">>)},
           regular : {NoText, last.price_text},
           href : {NoText, Text(<<"u", "1">>)},
           raises : BOOLEAN]
        url == Text(UrlNeptunGpu)
    IN  /\ last.op = "price_text"
        /\ \E c \in Containers :
           \E containers \in {<<c>>, <<c, GoodContainer>>, <<GoodContainer, c>>},
              parser \in {"scrapers/neptun.py", "scrapers/neptun/neptun.py",
                          "_generic_scrape"} :
              last' = [op |-> "parse_products", parser |-> parser,
                       containers |-> containers, url |-> url,
                       ret |-> CASE parser = "scrapers/neptun.py" ->
                                      neptun_parse_products(containers, url)
                                 [] parser = "scrapers/neptun/neptun.py" ->
                                      neptun_int_parse_products(containers, url)
                                 [] parser = "_generic_scrape" ->
                                      generic_parse_containers(containers, url)]
        /\ UNCHANGED <<dbVars, now, connVars>>

\* a price text found on a page, not yet converted
InitPrice ==
    /\ stores = {}
    /\ categories = SeedCategories
    /\ products = {}
    /\ prices = {}
    /\ store_id_seq = 0
    /\ product_id_seq = 0
    /\ price_id_seq = 0
    /\ now = 0
    /\ conns = [c \in Clients |-> Idle]
    /\ stores_name_unique = TRUE
    /\ products_url_unique = TRUE
    /\ schema_migrations = {}
    /\ schema = {}
    /\ \E t \in PriceTexts : last = [op |-> "price_text", price_text |-> t]

NextPrice == ExtractPrice \/ ParsePriceToInt \/ ParseProducts

SpecPrice == InitPrice /\ [][NextPrice]_vars

\* ------------------------------------------- schema migrations
\* scripts/migrate.py.  A migration file NNN.sql is the record of its stem
\* NNN and of whether it holds an UP and a DOWN section; its SQL holds no
\* transaction control of its own.  A call meets at most one fault: the
\* connection is refused, the section's SQL raises, the bookkeeping
\* statement raises, or commit() raises, with the transaction either
\* aborted or committed by the server before the connection broke.

\* number of migration files
MaxMigrations == 3

\* get_migration_files(), lines 56-66: sorted(files)
RECURSIVE get_migration_files(_)
get_migration_files(files) ==
    IF files = {} THEN <<>>
    ELSE LET first == CHOOSE f \in files : \A g \in files : f.stem <= g.stem
         IN  <<first>> \o get_migration_files(files \ {first})

\* the migration run with autocommit: the UP SQL is committed on its own,
\* before the version is recorded
apply_migration_autocommit(db, file, fault) ==
    IF ~file.up THEN [db |-> db, exc |-> NoException, ret |-> FALSE]
    ELSE IF fault = "connect"
    THEN [db |-> db, exc |-> Fail("OperationalError", "get_db_connection").exc,
          ret |-> FALSE]
    ELSE IF fault = "sql"
    THEN [db |-> db, exc |-> NoException, ret |-> FALSE]
    ELSE IF fault \in {"bookkeeping", "commit_aborted"}
            \/ file.stem \in db.schema_migrations
    THEN [db |-> [db EXCEPT !.schema = @ \cup {file.stem}],
          exc |-> NoException, ret |-> FALSE]
    ELSE [db |-> [schema_migrations |-> db.schema_migrations \cup {file.stem},
                  schema |-> db.schema \cup {file.stem}],
          exc |-> NoException, ret |-> fault # "commit_unacknowledged"]

\* apply_migration(file_path), lines 83-112.  The UP SQL (line 96) and the
\* INSERT of the version (lines 99-102), which raises on a version already
\* recorded (UNIQUE, line 35), run in one transaction, committed at line
\* 104 or rolled back at line 108; get_db_connection (line 92) is outside
\* the try
apply_migration(db, file, fault) ==
    IF ~file.up THEN [db |-> db, exc |-> NoException, ret |-> FALSE]
    ELSE IF fault = "connect"
    THEN [db |-> db, exc |-> Fail("OperationalError", "get_db_connection").exc,
          ret |-> FALSE]
    ELSE IF fault \in {"sql", "bookkeeping", "commit_aborted"}
            \/ file.stem \in db.schema_migrations
    THEN [db |-> db, exc |-> NoException, ret |-> FALSE]
    ELSE [db |-> [schema_migrations |-> db.schema_migrations \cup {file.stem},
                  schema |-> db.schema \cup {file.stem}],
          exc |-> NoException, ret |-> fault # "commit_unacknowledged"]

\* rollback_migration(file_path), lines 115-144.  The DOWN SQL (line 128)
\* and the DELETE of the version (lines 131-134), which deletes no row of
\* a version not recorded, run in one transaction
rollback_migration(db, file, fault) ==
    IF ~file.down THEN [db |-> db, exc |-> NoException, ret |-> FALSE]
    ELSE IF fault = "connect"
    THEN [db |-> db, exc |-> Fail("OperationalError", "get_db_connection").exc,
          ret |-> FALSE]
    ELSE IF fault \in {"sql", "bookkeeping", "commit_aborted"}
    THEN [db |-> db, exc |-> NoException, ret |-> FALSE]
    ELSE [db |-> [schema_migrations |-> db.schema_migrations \ {file.stem},
                  schema |-> db.schema \ {file.stem}],
          exc |-> NoException, ret |-> fault # "commit_unacknowledged"]

\* migrate_up(), lines 147-171: the pending files in sorted order, until
\* one is not applied (sys.exit(1), line 169) or raises; `attempted` lists
\* the stems apply_migration was called with
migrate_up(db, files, faults) ==
    LET migration_files == get_migration_files(files)
        pending == SelectSeq(migration_files,
                             LAMBDA f : f.stem \notin db.schema_migrations)
        RECURSIVE apply_pending(_, _)
        apply_pending(i, run) ==
            IF i > Len(pending) THEN run
            ELSE LET step(r) ==
                         [db |-> r.db,
                          attempted |-> Append(run.attempted, pending[i].stem),
                          exit |-> IF r.ret THEN 0 ELSE 1]
                     next == step(apply_migration(run.db, pending[i],
                                                  faults[pending[i].stem]))
                 IN  IF next.exit = 1 THEN next
                     ELSE apply_pending(i + 1, next)
    IN  apply_pending(1, [db |-> db, attempted |-> <<>>, exit |-> 0])

ApplyMigration ==
    /\ \E stem \in 1..MaxMigrations, up \in BOOLEAN,
          fault \in {"none", "connect", "sql", "bookkeeping",
                     "commit_aborted", "commit_unacknowledged"} :
          \E r \in {apply_migration(
                       [schema_migrations |-> schema_migrations,
                        schema |-> schema],
                       [stem |-> stem, up |-> up, down |-> TRUE], fault)} :
             /\ schema_migrations' = r.db.schema_migrations
             /\ schema' = r.db.schema
             /\ last' = [op |-> "apply_migration", version |-> stem,
                         up |-> up, fault |-> fault,
                         exc |-> r.exc, ret |-> r.ret]
    /\ UNCHANGED <<dbVars, now, conns, stores_name_unique,
                   products_url_unique>>

RollbackMigration ==
    /\ \E stem \in 1..MaxMigrations, down \in BOOLEAN,
          fault \in {"none", "connect", "sql", "bookkeeping",
                     "commit_aborted", "commit_unacknowledged"} :
          \E r \in {rollback_migration(
                       [schema_migrations |-> schema_migrations,
                        schema |-> schema],
                       [stem |-> stem, up |-> TRUE, down |-> down], fault)} :
             /\ schema_migrations' = r.db.schema_migrations
             /\ schema' = r.db.schema
             /\ last' = [op |-> "rollback_migration", version |-> stem,
                         down |-> down, fault |-> fault,
                         exc |-> r.exc, ret |-> r.ret]
    /\ UNCHANGED <<dbVars, now, conns, stores_name_unique,
                   products_url_unique>>

\* one run of `migrate.py up` over the files of the migrations directory
MigrateUp ==
    /\ \E stems \in SUBSET (1..MaxMigrations),
          ups \in [1..MaxMigrations -> BOOLEAN],
          failing \in 0..MaxMigrations,
          fault \in {"connect", "sql", "bookkeeping",
                     "commit_aborted", "commit_unacknowledged"} :
          \E run \in {migrate_up(
                         [schema_migrations |-> schema_migrations,
                          schema |-> schema],
                         {[stem |-> n, up |-> ups[n], down |-> TRUE] :
                             n \in stems},
                         [n \in 1..MaxMigrations |->
                             IF n = failing THEN fault ELSE "none"])} :
             /\ schema_migrations' = run.db.schema_migrations
             /\ schema' = run.db.schema
             /\ last' = [op |-> "migrate_up", files |-> stems,
                         attempted |-> run.attempted, exit |-> run.exit]
    /\ UNCHANGED <<dbVars, now, conns, stores_name_unique,
                   products_url_unique>>

NextMigrate == ApplyMigration \/ RollbackMigration \/ MigrateUp

SpecMigrate == Init /\ [][NextMigrate]_vars

\* ------------------------------------------------------------------- claims
IsSave(l) == l.op = "save_scraped_products"

\* the batch call ran to its commit without any infrastructure fault
SavedClean(l) == IsSave(l) /\ l.fail = NoFault /\ l.products # <<>>

AllValid(batch) == \A i \in DOMAIN batch : Valid(batch[i])

\* number of records of the batch with the url of record i
Occurrences(batch, i) ==
    Cardinality({j \in DOMAIN batch : batch[j].url = batch[i].url})

\* C1: Idempotent re-scrape.  When a batch of valid records is saved and the
\* next call saves the same records against the same source URL (no fault
\* in either call), the second call returns (0, number of records), there
\* is exactly one product row per (store_id, url) of the batch, and the two
\* calls together have appended exactly two price rows per record.
C1_IdempotentRescrape ==
    [][ ( /\ SavedClean(last) /\ SavedClean(last')
          /\ last'.products = last.products
          /\ last'.source_url = last.source_url
          /\ AllValid(last.products) )
        => LET batch == last.products
           IN  /\ last'.ret = <<0, Len(batch)>>
               /\ last'.store_id = last.store_id
               /\ Cardinality(products') = Cardinality(products)
               /\ \A i \in DOMAIN batch :
                    LET rows == {p \in products' :
                                    /\ p.store_id = last'.store_id
                                    /\ p.url = batch[i].url}
                    IN  /\ Cardinality(rows) = 1
                        /\ \A p \in rows :
                             /\ Cardinality({pr \in prices' :
                                    /\ pr.product_id = p.id
                                    /\ pr.scraped_at \in {now, now'}})
                                  = 2 * Occurrences(batch, i)
                             /\ Cardinality({pr \in prices' \ prices :
                                    pr.product_id = p.id})
                                  = Occurrences(batch, i)
      ]_vars

\* C1 witness: the second of two calls has just saved two valid records
\* with distinct urls again: no product created, two prices appended, and
\* each product holds one price of each call.
C1_Witness ==
    /\ SavedClean(last) /\ now = 2
    /\ Len(last.products) = 2 /\ AllValid(last.products)
    /\ last.products[1].url # last.products[2].url
    /\ last.ret = <<0, 2>>
    /\ \A i \in 1..2 :
         \E p \in products :
            /\ p.store_id = last.store_id /\ p.url = last.products[i].url
            /\ {pr.scraped_at : pr \in {q \in prices : q.product_id = p.id}}
                 = {1, 2}
            /\ Cardinality({q \in prices : q.product_id = p.id}) = 2

\* C2: Product identity.  No two product rows share (store_id, url); a batch
\* that names the same url more than once creates at most one product per
\* distinct url.
C2_ProductIdentity ==
    /\ \A p, q \in products :
         (p.store_id = q.store_id /\ p.url = q.url) => p = q
    /\ (SavedClean(last) /\ \A i \in DOMAIN last.products :
                               "url" \in DOMAIN last.products[i])
         => last.ret[1] <= Cardinality({last.products[i].url :
                                            i \in DOMAIN last.products})

\* C2 witness: a batch with the same url twice was saved: one product
\* created, two prices appended to it.
C2_Witness ==
    /\ SavedClean(last)
    /\ Len(last.products) = 2 /\ AllValid(last.products)
    /\ last.products[1].url = last.products[2].url
    /\ last.ret = <<1, 2>>
    /\ \E p \in products :
         /\ p.store_id = last.store_id /\ p.url = last.products[1].url
         /\ Cardinality({pr \in prices : pr.product_id = p.id}) = 2

\* C3: Price rows are immutable and append-only.  No call changes or
\* deletes a committed price row; add_price adds exactly one row; a batch
\* that commits adds exactly one row per record it counted, any other
\* call adds none.
C3_PricesAppendOnly ==
    [][ /\ prices \subseteq prices'
        /\ last'.op = "add_price"
             => Cardinality(prices' \ prices) = 1
        /\ (IsSave(last') /\ last'.committed)
             => Cardinality(prices' \ prices) = last'.ret[2]
        /\ (IsSave(last') /\ ~last'.committed) => prices' = prices
        /\ last'.op \in {"get_or_create_store", "get_or_create_product",
                         "update_product_name"} => prices' = prices
      ]_vars

\* C3 witness: add_price has just added a second price to a product whose
\* first price row is still there.
C3_Witness ==
    /\ last.op = "add_price"
    /\ \E pr \in prices :
         /\ pr.id # last.ret
         /\ pr.product_id = last.product_id
         /\ pr.scraped_at < now

\* the committed price rows of a product
PricesOf(product_id) == {pr \in prices : pr.product_id = product_id}

\* every price row of the product was appended by a call of its own
\* (successive saves): no two of its rows share a transaction time
SavedSuccessively(product_id) ==
    \A a, b \in PricesOf(product_id) :
        a.scraped_at = b.scraped_at => a = b

\* C4: After N successive saves of one product (N within the default
\* limit), get_price_history returns exactly its N rows in strictly
\* descending scraped_at order, and get_latest_price returns the row
\* appended last (the one holding pN).
C4_PriceHistory ==
    \A p \in products :
        LET rows == PricesOf(p.id)
            N == Cardinality(rows)
        IN  (SavedSuccessively(p.id) /\ N >= 1 /\ N <= DefaultLimit)
            => /\ \A h \in get_price_history(p.id, DefaultLimit) :
                    /\ Len(h) = N
                    /\ {h[i] : i \in 1..N} = rows
                    /\ \A i \in 1..(N - 1) :
                          /\ h[i].scraped_at > h[i + 1].scraped_at
                          /\ h[i].id > h[i + 1].id
               /\ get_latest_price(p.id) =
                    {pr \in rows : \A q \in rows : pr.id >= q.id}

\* C4 witness: a product saved twice, first at 10 and then at 20: the
\* history has two rows and the latest price is 20.
C4_Witness ==
    \E p \in products :
        /\ SavedSuccessively(p.id)
        /\ Cardinality(PricesOf(p.id)) = 2
        /\ \E h \in get_price_history(p.id, DefaultLimit) :
              Len(h) = 2 /\ h[1].price = 20 /\ h[2].price = 10
        /\ \E pr \in get_latest_price(p.id) : pr.price = 20

\* the record lacks `price` but has the other keys the loop reads
LacksPrice(product) ==
    {"name", "url"} \subseteq DOMAIN product /\ "price" \notin DOMAIN product

\* C5: Partial-failure tolerance.  A batch in which some records lack
\* `price` and the remaining k >= 1 records are valid and new (k distinct
\* urls unknown to the store, none shared with a record lacking `price`)
\* returns (k, k) and commits.
C5_PartialFailure ==
    [][ ( /\ SavedClean(last')
          /\ \A i \in DOMAIN last'.products :
                Valid(last'.products[i]) \/ LacksPrice(last'.products[i])
          /\ \E i \in DOMAIN last'.products : LacksPrice(last'.products[i])
          /\ \E i \in DOMAIN last'.products : Valid(last'.products[i])
          /\ \A i, j \in DOMAIN last'.products :
                (i # j /\ Valid(last'.products[i]))
                  => last'.products[i].url # last'.products[j].url
          /\ \A i \in DOMAIN last'.products :
                ~\E p \in products : /\ p.store_id = last'.store_id
                                     /\ p.url = last'.products[i].url )
        => LET k == Cardinality({i \in DOMAIN last'.products :
                                    Valid(last'.products[i])})
           IN  last'.committed /\ last'.ret = <<k, k>>
      ]_vars

\* C6: A record missing name or price leaves no trace: a batch commits the
\* rows and returns the counts it would without those records.
C6_InvalidRecordNoTrace ==
    [][ SavedClean(last')
        => LET l == last'
               kept == SelectSeq(l.products, Valid)
               t == save_loop(BatchBegin, kept, l.store_id,
                              IF Truthy(l.category_slug)
                              THEN get_category_id_by_slug(l.category_slug)
                              ELSE NULL,
                              NoFault, CurrentTimestamp)
           IN  /\ products' = t.products
               /\ prices' = t.prices
               /\ l.ret = <<t.products_saved, t.prices_saved>>
      ]_vars

\* C7: A batch hit by an infrastructure fault commits none of its product
\* or price rows and returns (0, 0), wherever the fault hits.
C7_FaultRollsBack ==
    [][ (IsSave(last') /\ last'.fail # NoFault)
        => /\ products' = products
           /\ prices' = prices
           /\ last'.outcome = "returned"
           /\ last'.ret = <<0, 0>>
      ]_vars

\* C8: One batch call is a single transaction including store resolution:
\* a batch that does not commit leaves no store row created for it.
C8_StoreInBatchTransaction ==
    [][ (IsSave(last') /\ ~last'.committed) => stores' = stores ]_vars

\* the category id a record resolves to: its own slug if it has the key,
\* else the batch-level slug
EffectiveCategory(product, category_slug) ==
    IF "category" \in DOMAIN product
    THEN get_category_id_by_slug(product.category)
    ELSE IF Truthy(category_slug)
         THEN get_category_id_by_slug(category_slug)
         ELSE NULL

\* the category_id stored for the url of record i after the batch
StoredCategory(l, i, table) ==
    {p.category_id : p \in {q \in table : /\ q.store_id = l.store_id
                                          /\ q.url = l.products[i].url}}

\* C9 as stated: after a batch commits, every valid record whose own slug
\* (or, without one, the batch-level slug) names a category is stored with
\* that category id.
C9_CategoryOverrideAsStated ==
    [][ SavedClean(last')
        => \A i \in DOMAIN last'.products :
             LET rec == last'.products[i]
                 cid == EffectiveCategory(rec, last'.category_slug)
             IN  (Valid(rec) /\ cid # NULL)
                 => StoredCategory(last', i, products') = {cid}
      ]_vars

\* C9 amended: the same, for every such record that is the last record of
\* the batch with its url whose slug names a category (records of one
\* batch that share a url share the product row; the last one decides).
C9_CategoryOverride ==
    [][ SavedClean(last')
        => \A i \in DOMAIN last'.products :
             LET batch == last'.products
                 rec == batch[i]
                 cid == EffectiveCategory(rec, last'.category_slug)
                 later == {j \in DOMAIN batch :
                             /\ j > i
                             /\ "url" \in DOMAIN batch[j]
                             /\ batch[j].url = rec.url
                             /\ EffectiveCategory(batch[j],
                                    last'.category_slug) # NULL}
             IN  (Valid(rec) /\ cid # NULL /\ later = {})
                 => StoredCategory(last', i, products') = {cid}
      ]_vars

\* C9 witness: batch-level slug "gpu", one record carrying
\* category "motherboard" and a sibling without category: the first is
\* stored with the id of "motherboard", the second with the id of "gpu".
C9_Witness ==
    /\ SavedClean(last) /\ last.committed
    /\ last.category_slug = "gpu"
    /\ Len(last.products) = 2
    /\ AllValid(last.products)
    /\ "category" \in DOMAIN last.products[1]
    /\ last.products[1].category = "motherboard"
    /\ "category" \notin DOMAIN last.products[2]
    /\ last.products[1].url # last.products[2].url
    /\ StoredCategory(last, 1, products) = {2}
    /\ StoredCategory(last, 2, products) = {1}

\* URLs that differ only in scheme, leading "www.", case of the host, path
ExampleUrls == {UrlExampleX, UrlWwwExampleY, UrlHttpExample}

\* C10: Store identity normalization.  get_or_create_store maps every URL
\* of ExampleUrls to the one store named "example.com".
C10_StoreNormalization ==
    /\ \A s \in stores : s.url \in ExampleUrls => s.name = NameExample
    /\ Cardinality({s \in stores : s.url \in ExampleUrls}) <= 1
    /\ (last.op = "get_or_create_store" /\ last.url \in ExampleUrls)
         => \E s \in stores : s.id = last.ret /\ s.name = NameExample

\* the product rows of the store and url of record i of the batch call l
RowsOf(l, i, table) ==
    {p \in table : p.store_id = l.store_id /\ p.url = l.products[i].url}

\* C12: Whenever save_scraped_products commits a batch, every valid record
\* whose product already existed before the call leaves that product with
\* last_scraped_at equal to the time of this save, whatever else the record
\* carries (also with neither an image nor a resolvable category).
C12_LastScrapedRefreshed ==
    [][ (SavedClean(last') /\ last'.committed)
        => \A i \in DOMAIN last'.products :
             (Valid(last'.products[i]) /\ RowsOf(last', i, products) # {})
             => \A p \in RowsOf(last', i, products') :
                    p.last_scraped_at = now'
      ]_vars

\* C13: Product name is latest-scrape-wins on the batch path.  Whenever
\* save_scraped_products commits a batch, every valid record whose product
\* already existed before the call, and whose url no later record of the
\* batch repeats, leaves that product named as the record names it.
C13_NameLatestWins ==
    [][ (SavedClean(last') /\ last'.committed)
        => \A i \in DOMAIN last'.products :
             ( /\ Valid(last'.products[i])
               /\ RowsOf(last', i, products) # {}
               /\ \A j \in DOMAIN last'.products :
                     j > i => last'.products[j].url # last'.products[i].url )
             => \A p \in RowsOf(last', i, products') :
                    p.name = last'.products[i].name
      ]_vars

\* C11: get_or_create_store is safe under concurrency.  In every
\* interleaving of concurrent calls, each on its own connection, no call
\* fails, the calls that have returned for one store name have returned
\* the same id, and exactly one store row has that name.
C11_ConcurrentStoreSafe ==
    /\ \A c \in Clients : conns[c].pc # "raised"
    /\ \A c, d \in Clients :
          ( /\ conns[c].pc = "returned" /\ conns[d].pc = "returned"
            /\ conns[c].store_name = conns[d].store_name )
          => conns[c].ret = conns[d].ret
    /\ \A c \in Clients :
          conns[c].pc = "returned"
          => Cardinality({s \in stores : s.name = conns[c].store_name}) = 1

IsScrape(l) == l.op = "scrape"

\* C14: The renderer is released on every exit path of scrape().  Whenever
\* the call holds a Selenium driver, driver.quit() has been called exactly
\* once when scrape() returns or raises, and an exception raised by quit()
\* is never the outcome of scrape().
C14_RendererReleased ==
    IsScrape(last)
    => /\ last.result.self.driver # None => last.result.quits = 1
       /\ last.result.exc.origin # "driver.quit"

\* C14 witness: the driver was started and the parser raised; scrape()
\* raises the parser's exception, and quit() was called and failed.
C14_Witness ==
    /\ IsScrape(last)
    /\ last.result.self.driver # None
    /\ last.result.exc.origin = "parse_products"
    /\ last.env.quit # "ok"
    /\ last.result.quits = 1

\* C15: A failure of _save_response does not abort the scrape, in either
\* fetch mode.  When everything but the saving of the raw content works,
\* fetch() returns True with the parsed document set, and scrape() returns
\* the records the parser produced.
C15_SaveResponseFailureTolerated ==
    ( /\ IsScrape(last)
      /\ last.env.save_response # "ok"
      /\ last.env.get = "ok" /\ last.env.chrome = "ok"
      /\ last.env.driver_get = "ok"
      /\ ~last.env.parse.raises )
    => /\ last.fetched.exc = NoException
       /\ last.fetched.ret = TRUE
       /\ last.fetched.self.soup # None
       /\ last.result.exc = NoException
       /\ last.result.ret = last.env.parse.products

IsAuto(l) == l.op = "auto_scrape"

\* the auto-scrape command ran and run_auto_scraper returned its report
RanAuto(l) == IsAuto(l) /\ l.run.exc = NoException

\* a provider whose scrape.json loaded and holds dicts only
WellFormed(config) ==
    ~config.raises /\ \A i \in DOMAIN config.targets : config.targets[i].type = "dict"

\* the enabled targets of a well-formed provider, in file order
EnabledOf(config) ==
    SelectSeq(config.targets, LAMBDA e : Get(e.value, "enabled", FALSE))

\* the enabled targets of the well-formed providers from provider i on, in
\* provider order and file order
RECURSIVE ExpectedFrom(_, _)
ExpectedFrom(configs, i) ==
    IF i > Len(configs) THEN <<>>
    ELSE (IF WellFormed(configs[i])
          THEN [k \in 1..Len(EnabledOf(configs[i])) |->
                   [provider |-> i, target |-> EnabledOf(configs[i])[k].value]]
          ELSE <<>>) \o ExpectedFrom(configs, i + 1)

Expected(l) == ExpectedFrom(l.discovered.configs, 1)

\* C16: One target's exception never aborts the run.  Every enabled target
\* of every well-formed provider is attempted, in order, whatever happened
\* to the targets before it, and a target whose scrape or save raised has
\* a detail entry with status 'error'.
C16_TargetErrorIsolated ==
    RanAuto(last)
    => LET exp == Expected(last)
           att == last.run.attempts
           det == last.run.ret.details
       IN  /\ Len(att) = Len(exp)
           /\ \A i \in DOMAIN exp :
                 /\ att[i].provider = exp[i].provider
                 /\ att[i].url = exp[i].target.url
           /\ \A i \in DOMAIN att :
                 att[i].raised
                 => /\ i \in DOMAIN det
                    /\ det[i].status = "error"
                    /\ det[i].provider = att[i].provider
                    /\ det[i].url = att[i].url

\* C16 witness: the first target of provider 1 raised; the second target of
\* provider 1 and a target of provider 2 were attempted after it.
C16_Witness ==
    /\ RanAuto(last)
    /\ Len(last.run.attempts) = 3
    /\ last.run.attempts[1].raised
    /\ last.run.ret.details[1].status = "error"
    /\ last.run.attempts[2].provider = 1
    /\ last.run.attempts[3].provider = 2

\* what scrape_url(url) gives for a target under the pages `site`
Scraped(site, target) == scrape_url(AsText(target.url), site[target.url])

\* the number of records over the pages of the expected targets
RECURSIVE SumProducts(_, _, _)
SumProducts(exp, site, i) ==
    IF i > Len(exp) THEN 0
    ELSE Len(Scraped(site, exp[i].target).ret) + SumProducts(exp, site, i + 1)

\* C17: With the database up, every enabled target whose scrape yields a
\* non-empty record list is recorded with status 'success' and its number
\* of records, counted in successful_scrapes and total_products; a target
\* whose scrape yields an empty list is recorded with 'no_products'.
C17_SuccessRecorded ==
    (RanAuto(last) /\ last.env.db = "ok")
    => LET exp == Expected(last)
           det == last.run.ret.details
           site == last.env.site
           ok == {i \in DOMAIN exp :
                     Scraped(site, exp[i].target).exc = NoException}
           found == {i \in ok : Scraped(site, exp[i].target).ret # <<>>}
       IN  /\ \A i \in found :
                 /\ i \in DOMAIN det
                 /\ det[i].status = "success"
                 /\ det[i].products_found = Len(Scraped(site, exp[i].target).ret)
           /\ \A i \in ok \ found :
                 i \in DOMAIN det /\ det[i].status = "no_products"
           /\ last.run.ret.successful_scrapes = Cardinality(found)
           /\ ok = DOMAIN exp
                 => last.run.ret.total_products = SumProducts(exp, site, 1)

\* the sum of products_found over the 'success' entries from entry i on
RECURSIVE SumFound(_, _)
SumFound(det, i) ==
    IF i > Len(det) THEN 0
    ELSE (IF det[i].status = "success" THEN det[i].products_found ELSE 0)
         + SumFound(det, i + 1)

\* C18: Report consistency.  In the report run_auto_scraper returns,
\* successful_scrapes + failed_scrapes = total_urls = number of details,
\* failed_scrapes counts the 'no_products' and 'error' details,
\* total_products is the sum of products_found over the 'success' details,
\* and the details are, one for one and in order, the enabled targets of
\* the well-formed providers.
C18_ReportConsistent ==
    RanAuto(last)
    => LET r == last.run.ret
           det == r.details
           exp == Expected(last)
       IN  /\ r.successful_scrapes + r.failed_scrapes = r.total_urls
           /\ r.total_urls = Len(det)
           /\ r.failed_scrapes =
                Cardinality({i \in DOMAIN det :
                                det[i].status \in {"no_products", "error"}})
           /\ r.total_products = SumFound(det, 1)
           /\ Len(det) = Len(exp)
           /\ \A i \in DOMAIN exp :
                 /\ det[i].provider = exp[i].provider
                 /\ det[i].url = exp[i].target.url
                 /\ det[i].category = Get(exp[i].target, "category", "unknown")

\* C18 witness: a report of two details, one per provider, where the first
\* provider also lists a target that is not enabled.
C18_Witness ==
    /\ RanAuto(last)
    /\ Len(last.run.ret.details) = 2
    /\ last.run.ret.total_urls = 2
    /\ last.run.ret.details[1].provider = 1
    /\ last.run.ret.details[2].provider = 2
    /\ Len(last.discovered.configs[1].targets) = 2

\* C19: The auto-scrape command exits non-zero exactly when
\* run_auto_scraper raised or when total_urls > 0 and
\* successful_scrapes = 0; otherwise it exits normally.
C19_ExitCode ==
    IsAuto(last)
    => IF last.run.exc # NoException THEN last.exit_code # 0
       ELSE (last.exit_code # 0)
            <=> ( /\ last.run.ret.total_urls > 0
                  /\ last.run.ret.successful_scrapes = 0 )

\* C19 witness: the run returned a report in which both targets failed,
\* and the command exits with 1.
C19_Witness ==
    /\ RanAuto(last)
    /\ last.run.ret.total_urls = 2
    /\ last.run.ret.successful_scrapes = 0
    /\ last.exit_code = 1

\* the entries of a sequence that name provider p
OfProvider(entries, p) == {i \in DOMAIN entries : entries[i].provider = p}

\* the number of enabled targets of the well-formed providers from i on
RECURSIVE CountEnabled(_, _)
CountEnabled(configs, i) ==
    IF i > Len(configs) THEN 0
    ELSE (IF WellFormed(configs[i]) THEN Len(EnabledOf(configs[i])) ELSE 0)
         + CountEnabled(configs, i + 1)

\* C20: A provider whose config fails to load or holds an entry that is no
\* mapping is skipped: none of its targets is attempted, recorded or
\* counted in total_urls, and every other provider is processed in full.
C20_MalformedProviderSkipped ==
    RanAuto(last)
    => LET configs == last.discovered.configs
       IN  /\ \A p \in DOMAIN configs :
                 LET n == IF WellFormed(configs[p])
                          THEN Len(EnabledOf(configs[p])) ELSE 0
                 IN  /\ Cardinality(OfProvider(last.run.attempts, p)) = n
                     /\ Cardinality(OfProvider(last.run.ret.details, p)) = n
           /\ last.run.ret.total_urls = CountEnabled(configs, 1)

\* C20 witness: provider 1 lists an enabled target and then a string, and
\* provider 2 an enabled target: only provider 2's target is attempted.
C20_Witness ==
    /\ RanAuto(last)
    /\ Len(last.discovered.configs) = 2
    /\ Len(last.discovered.configs[1].targets) = 2
    /\ last.discovered.configs[1].targets[1].type = "dict"
    /\ enabled(last.discovered.configs[1].targets[1].value)
    /\ last.discovered.configs[1].targets[2].type = "str"
    /\ Len(last.run.attempts) = 1
    /\ last.run.attempts[1].provider = 2
    /\ last.run.ret.total_urls = 1

\* the two numbers are equal
NumEq(a, mantissa, decimals) ==
    /\ ~a.none
    /\ LET Pow10[n \in 0..(a.decimals + decimals)] ==
               IF n = 0 THEN 1 ELSE 10 * Pow10[n - 1]
       IN  a.mantissa * Pow10[decimals] = mantissa * Pow10[a.decimals]

\* a text no number can be read from: None, or a str without any digit
Unparsable(price_text) ==
    price_text.none \/ \A i \in DOMAIN price_text.chars :
                           price_text.chars[i] \notin Digits

\* C30: Price-text normalization.  _extract_price maps "1,234.50" to
\* 1234.50; _parse_price_to_int maps "8.999" to 8999 and "1,234" to 1234;
\* a text without digits (or None) gives None under both.
C30_PriceNormalization ==
    /\ (last.op = "_extract_price" /\ last.price_text = Text(Text1234_50))
         => NumEq(last.ret, 123450, 2)
    /\ (last.op = "_parse_price_to_int" /\ last.price_text = Text(Text8_999))
         => NumEq(last.ret, 8999, 0)
    /\ (last.op = "_parse_price_to_int" /\ last.price_text = Text(Text1_234))
         => NumEq(last.ret, 1234, 0)
    /\ ( /\ last.op \in {"_extract_price", "_parse_price_to_int"}
         /\ Unparsable(last.price_text) )
         => last.ret = NoPrice

\* the places of the registry whose class can handle the url
Matching(scrapers, url) ==
    {i \in DOMAIN scrapers : can_handle(scrapers[i], Text(url)).ret = TRUE}

\* C22: Dispatcher fallback.  For a url that no class of the registry can
\* handle, get_scraper_for_url returns None without raising, and
\* scrape_url returns what the generic extractor gives for that url.
C22_DispatcherFallback ==
    /\ ( /\ last.op = "get_scraper_for_url"
         /\ Matching(last.SCRAPERS, last.url) = {} )
         => last.result = Ok(NoScraper)
    /\ (last.op = "scrape_url" /\ Matching(SCRAPERS, last.url) = {})
         => /\ last.scraper_class = Ok(NoScraper)
            /\ last.result = generic_scrape(Text(last.url), last.page)
            /\ (last.page.get = "ok" /\ ~last.page.parse.raises)
                 => /\ last.result.exc = NoException
                    /\ Len(last.result.ret) = Len(last.page.parse.products)

\* C22 witness: no scraper handles "https://shop.test/list", and the two
\* records of the page came back from the generic extractor.
C22_Witness ==
    /\ last.op = "scrape_url"
    /\ last.url = UrlShopList
    /\ last.scraper_class = Ok(NoScraper)
    /\ last.page.get = "ok"
    /\ last.result.exc = NoException
    /\ Len(last.result.ret) = 2

\* C23: Dispatcher first-match.  get_scraper_for_url returns the class at
\* the lowest place of the registry among those whose can_handle(url) is
\* true, None when there is none, and never a class whose DOMAIN is unset.
C23_DispatcherFirstMatch ==
    last.op = "get_scraper_for_url"
    => LET matching == Matching(last.SCRAPERS, last.url)
       IN  /\ last.result.exc = NoException
           /\ matching # {}
                => \E i \in matching :
                      /\ \A k \in matching : i <= k
                      /\ last.result.ret = last.SCRAPERS[i]
           /\ matching = {} => last.result.ret = NoScraper
           /\ \A i \in DOMAIN last.SCRAPERS :
                 last.SCRAPERS[i].Domain.none
                 => /\ i \notin matching
                    /\ last.result.ret # last.SCRAPERS[i]

\* C23 witness: the registry starts with a class without DOMAIN, and two
\* different classes after it both handle "https://shop.test/neptun"; the
\* earlier of the two was returned.
C23_Witness ==
    /\ last.op = "get_scraper_for_url"
    /\ last.url = UrlShopNeptun
    /\ last.SCRAPERS = <<UnsetScraper, StaticScraper, NeptunScraper>>
    /\ Matching(last.SCRAPERS, last.url) = {2, 3}
    /\ last.result.ret = StaticScraper

CurrentPrice(product_id) ==
    CHOOSE pr \in PricesOf(product_id) :
        \A q \in PricesOf(product_id) :
            \/ q.scraped_at < pr.scraped_at
            \/ q.scraped_at = pr.scraped_at /\ q.id <= pr.id

\* the row of a product list shows the current price of its product
ShowsCurrentPrice(row) ==
    /\ row.price = CurrentPrice(row.id).price
    /\ row.currency = CurrentPrice(row.id).currency
    /\ row.scraped_at = CurrentPrice(row.id).scraped_at

\* C24: list_recent_products and search_products show, for every product
\* they return that has a price, its current price (greatest scraped_at,
\* then highest id), list_recent_products returns every priced product
\* once up to its limit, and get_latest_price returns that same row.
C24_CurrentPriceSelected ==
    /\ last.op \in {"list_recent_products", "search_products"}
         => \A i \in DOMAIN last.ret :
               PricesOf(last.ret[i].id) # {} => ShowsCurrentPrice(last.ret[i])
    /\ last.op = "list_recent_products"
         => LET priced == {p.id : p \in {q \in products : PricesOf(q.id) # {}}}
            IN  /\ \A i, k \in DOMAIN last.ret :
                      last.ret[i].id = last.ret[k].id => i = k
                /\ {last.ret[i].id : i \in DOMAIN last.ret} \subseteq priced
                /\ Len(last.ret) = IF Cardinality(priced) < last.args.limit
                                   THEN Cardinality(priced)
                                   ELSE last.args.limit
    /\ ( /\ last.op = "get_latest_price"
         /\ PricesOf(last.args.product_id) # {} )
         => last.ret = CurrentPrice(last.args.product_id)

\* the query methods of the repository
ReadOps ==
    {"list_recent_products", "search_products", "get_price_history",
     "get_latest_price", "get_product_by_id", "get_store_by_id",
     "list_stores", "get_category_id_by_slug", "get_stats"}

\* C25: Read paths never mutate.  A call of any query method leaves the
\* store, product, price and category tables as they were, and get_stats
\* returns exactly the numbers of committed store, product and price rows.
C25_ReadPathsNeverMutate ==
    [][ last'.op \in ReadOps
        => /\ stores' = stores
           /\ products' = products
           /\ prices' = prices
           /\ categories' = categories
           /\ last'.op = "get_stats"
                => /\ last'.ret.stores = Cardinality(stores)
                   /\ last'.ret.products = Cardinality(products)
                   /\ last'.ret.prices = Cardinality(prices)
      ]_vars

\* C25 witness: get_stats was called on a database holding one store and
\* one product with two prices, and reported these numbers.
C25_Witness ==
    /\ last.op = "get_stats"
    /\ Cardinality(stores) = 1
    /\ Cardinality(products) = 1
    /\ Cardinality(prices) = 2
    /\ last.ret = [stores |-> 1, products |-> 1, prices |-> 2]

\* no category row has the slug (None and "" included)
UnknownSlug(slug) == \A c \in categories : c.slug # slug

\* the slug that decides the category of a record of the batch call l
SlugOf(l, product) ==
    IF "category" \in DOMAIN product THEN product.category ELSE l.category_slug

\* C26: Categories are never created by the scraping path.  No call changes
\* the category rows; get_category_id_by_slug returns None for an empty or
\* unknown slug; and a committed batch of valid records creates the product
\* of every new url whose records all carry an unknown slug (per record, or
\* batch-level for a record without one) with no category, and appends one
\* price per record.
C26_CategoriesNeverCreated ==
    [][ /\ categories' = categories
        /\ ( /\ last'.op = "get_category_id_by_slug"
             /\ UnknownSlug(last'.args.slug) )
             => last'.ret = NULL
        /\ (SavedClean(last') /\ last'.committed /\ AllValid(last'.products))
             => /\ Cardinality(prices' \ prices) = Len(last'.products)
                /\ \A i \in DOMAIN last'.products :
                      ( /\ RowsOf(last', i, products) = {}
                        /\ \A k \in DOMAIN last'.products :
                              last'.products[k].url = last'.products[i].url
                              => UnknownSlug(SlugOf(last', last'.products[k])) )
                      => /\ RowsOf(last', i, products') # {}
                         /\ \A p \in RowsOf(last', i, products') :
                               /\ p.category_id = NULL
                               /\ \E pr \in prices' \ prices :
                                     pr.product_id = p.id
      ]_vars

\* C26 witness: a batch with the unknown batch-level slug "cpu" and a
\* record carrying the unknown slug "cpu" was committed; its product was
\* created without category and has a price.
C26_Witness ==
    /\ SavedClean(last) /\ last.committed
    /\ last.category_slug = "cpu"
    /\ \E i \in DOMAIN last.products :
          /\ Valid(last.products[i])
          /\ Get(last.products[i], "category", None) = "cpu"
          /\ \E p \in RowsOf(last, i, products) :
                /\ p.category_id = NULL
                /\ p.last_scraped_at = now
                /\ \E pr \in prices : pr.product_id = p.id
    /\ categories = SeedCategories

\* C27: Single-item upsert.  get_or_create_product for an existing
\* (store_id, url) returns the id of that product, inserts no row, keeps
\* the stored name, and replaces the stored image only when a non-empty
\* image is passed (every other field and row stays as it was); for a new
\* (store_id, url) it inserts exactly one row with the given store, name,
\* url and image and returns the id of that row.
C27_SingleItemUpsert ==
    [][ last'.op = "get_or_create_product"
        => LET l == last'
               old == {p \in products :
                          p.store_id = l.store_id /\ p.url = l.url}
           IN  IF old # {}
               THEN \E p \in old :
                       /\ l.ret = p.id
                       /\ products' =
                            {IF q.id = p.id /\ Truthy(l.image)
                             THEN [q EXCEPT !.image = l.image]
                             ELSE q : q \in products}
               ELSE \E r \in products' \ products :
                       /\ products' = products \cup {r}
                       /\ r.id = l.ret
                       /\ l.ret \notin Ids(products)
                       /\ r.store_id = l.store_id
                       /\ r.name = l.name
                       /\ r.url = l.url
                       /\ r.image = l.image
      ]_vars

\* C27 witness: the call named an existing product by another name and
\* passed an image; the product kept its name and has the image.
C27_Witness ==
    /\ last.op = "get_or_create_product"
    /\ Truthy(last.image)
    /\ \E p \in products :
          /\ p.id = last.ret
          /\ p.store_id = last.store_id /\ p.url = last.url
          /\ p.name # last.name
          /\ p.image = last.image

\* C28: Batches are independent transactions.  When a batch was committed
\* and the next batch is rolled back, aborted or lost, every store, product
\* and price row that was committed before the later batch is still there,
\* unchanged, and the later batch has added no product and no price.
C28_BatchesIndependent ==
    [][ ( /\ IsSave(last) /\ last.committed
          /\ IsSave(last') /\ last'.products # <<>> /\ ~last'.committed )
        => /\ stores \subseteq stores'
           /\ products' = products
           /\ prices' = prices
      ]_vars

\* C28 witness: the first batch committed a product with an image; the
\* second batch updated that product inside its transaction and then
\* failed; the row and its price are as the first batch left them.
C28_Witness ==
    /\ IsSave(last) /\ ~last.committed
    /\ last.fail.kind = "error" /\ last.fail.at > 2
    /\ now = 2
    /\ \E p \in products :
          /\ p.last_scraped_at = 1
          /\ p.store_id = last.store_id
          /\ \E i \in DOMAIN last.products :
                /\ Valid(last.products[i])
                /\ last.products[i].url = p.url
                /\ Truthy(Get(last.products[i], "image", None))
                /\ Get(last.products[i], "image", None) # p.image
          /\ \E pr \in prices : pr.product_id = p.id /\ pr.scraped_at = 1

\* C29: Targets are processed strictly sequentially in configuration
\* order.  The log of a run is, for the enabled targets of the well-formed
\* providers in provider order and list order, the start of the scrape of
\* a target followed at once by its end (scrape, save and detail entry),
\* before the start of the next target; and the detail entries of the
\* report come in that same order.
C29_SequentialInOrder ==
    RanAuto(last)
    => LET exp == Expected(last)
           ev == last.run.events
           det == last.run.ret.details
       IN  /\ Len(ev) = 2 * Len(exp)
           /\ Len(det) = Len(exp)
           /\ \A k \in DOMAIN exp :
                 /\ ev[2 * k - 1] = [at |-> "start",
                                     provider |-> exp[k].provider,
                                     url |-> exp[k].target.url]
                 /\ ev[2 * k] = [at |-> "end",
                                 provider |-> exp[k].provider,
                                 url |-> exp[k].target.url]
                 /\ det[k].provider = exp[k].provider
                 /\ det[k].url = exp[k].target.url
                 /\ det[k].category = Get(exp[k].target, "category", "unknown")

\* C29 witness: provider 1 lists the gpu page before the list page, both
\* enabled, and the report has the two entries in that order.
C29_Witness ==
    /\ RanAuto(last)
    /\ Len(last.discovered.configs) = 1
    /\ Len(last.run.ret.details) = 2
    /\ last.run.ret.details[1].url = UrlGpu
    /\ last.run.ret.details[2].url = UrlList
    /\ last.run.events[2] = [at |-> "end", provider |-> 1, url |-> UrlGpu]
    /\ last.run.events[3] = [at |-> "start", provider |-> 1, url |-> UrlList]

\* the domain of a source URL, as the specification names it
DomainOf(url) ==
    IF url = UrlShopList
    THEN <<"s","h","o","p",".","t","e","s","t">>
    ELSE NameExample

\* the records of the batch are valid and their urls pairwise distinct
DistinctValid(batch) ==
    /\ AllValid(batch)
    /\ \A i, j \in DOMAIN batch : i # j => batch[i].url # batch[j].url

\* C31: Fresh-store scenario.  Saving n valid records with pairwise
\* distinct urls against a source URL whose domain has no store yet (no
\* fault) creates exactly one store, named by that domain, n products owned
\* by that store and n price rows, one per product, and returns (n, n).
C31_FreshStore ==
    [][ ( /\ SavedClean(last')
          /\ DistinctValid(last'.products)
          /\ ~\E s \in stores :
                lower(s.name) = DomainOf(last'.source_url) )
        => LET n == Len(last'.products)
               newStores == stores' \ stores
               newProducts == products' \ products
               newPrices == prices' \ prices
           IN  /\ stores \subseteq stores'
               /\ Cardinality(newStores) = 1
               /\ \A s \in newStores :
                     /\ s.name = DomainOf(last'.source_url)
                     /\ s.id = last'.store_id
                     /\ \A p \in newProducts : p.store_id = s.id
               /\ products \subseteq products'
               /\ Cardinality(newProducts) = n
               /\ \A i \in DOMAIN last'.products :
                     \E p \in newProducts :
                        /\ p.url = last'.products[i].url
                        /\ p.name = last'.products[i].name
               /\ prices \subseteq prices'
               /\ Cardinality(newPrices) = n
               /\ \A p \in newProducts :
                     Cardinality({pr \in newPrices : pr.product_id = p.id}) = 1
               /\ last'.ret = <<n, n>>
      ]_vars

\* C31 witness: the first call saves two valid records with distinct urls
\* for "https://shop.test/list" and leaves the one store "shop.test".
C31_Witness ==
    /\ SavedClean(last)
    /\ now = 1
    /\ last.source_url = UrlShopList
    /\ Len(last.products) = 2
    /\ DistinctValid(last.products)
    /\ last.ret = <<2, 2>>
    /\ Cardinality(stores) = 1
    /\ \A s \in stores : s.name = <<"s","h","o","p",".","t","e","s","t">>
    /\ Cardinality(products) = 2
    /\ Cardinality(prices) = 2

\* the container cannot give a record: its processing raises, its name is
\* missing or empty, or its price elements hold no text with a digit
NoRecordFrom(c) ==
    \/ c.raises
    \/ c.name.none \/ c.name.chars = <<>>
    \/ Unparsable(c.happy) /\ Unparsable(c.regular)

\* C32: Every record a scraper emits has a non-empty name, a numeric price
\* and a url, the link of its container or else the page URL; a container
\* whose name or price is missing or fails to parse, or whose processing
\* raises, contributes no record, and the other containers of the page
\* give the records they give alone.
C32_RecordsWellFormed ==
    last.op = "parse_products"
    => LET cs == last.containers
           alone(c) == CASE last.parser = "scrapers/neptun.py" ->
                              neptun_parse_products(<<c>>, last.url)
                         [] last.parser = "scrapers/neptun/neptun.py" ->
                              neptun_int_parse_products(<<c>>, last.url)
                         [] last.parser = "_generic_scrape" ->
                              generic_parse_containers(<<c>>, last.url)
       IN  /\ \A i \in DOMAIN last.ret :
                 /\ last.ret[i].name # <<>>
                 /\ "mantissa" \in DOMAIN last.ret[i].price
                 /\ ~last.ret[i].price.none
                 /\ \E k \in DOMAIN cs :
                       /\ last.ret[i].name = cs[k].name.chars
                       /\ last.ret[i].url =
                            IF cs[k].href.none THEN last.url.chars
                            ELSE cs[k].href.chars
           /\ \A k \in DOMAIN cs : NoRecordFrom(cs[k]) => alone(cs[k]) = <<>>
           /\ last.ret = IF Len(cs) = 1 THEN alone(cs[1])
                         ELSE alone(cs[1]) \o alone(cs[2])

\* C33: Dry run writes nothing.  When auto-scrape runs with --dry-run
\* (whatever --save-db is) or with --no-save-db, save_products is called
\* for no target and no table or sequence changes, while the report is
\* produced: it counts the providers and has one detail entry for every
\* enabled target of the well-formed providers.
C33_DryRunWritesNothing ==
    [][ (RanAuto(last') /\ (last'.dry_run \/ ~last'.save_db))
        => /\ UNCHANGED dbVars
           /\ \A i \in DOMAIN last'.run.attempts :
                 ~last'.run.attempts[i].saving
           /\ last'.run.ret.total_providers = Len(last'.discovered.configs)
           /\ last'.run.ret.total_urls = Len(Expected(last'))
           /\ Len(last'.run.ret.details) = Len(Expected(last'))
      ]_vars

\* C33 witness: a dry run with --save-db over one enabled target whose
\* page holds two records; the report has the entry of the target.
C33_Witness ==
    /\ RanAuto(last)
    /\ last.dry_run /\ last.save_db
    /\ last.env.db = "ok"
    /\ Len(Expected(last)) = 1
    /\ Len(Scraped(last.env.site, Expected(last)[1].target).ret) = 2
    /\ Len(last.run.ret.details) = 1

\* C34: The counts returned by save_scraped_products equal what was
\* committed: whenever it returns (c, p), the call added exactly c product
\* rows and exactly p price rows to the committed tables.
C34_CountsMatchCommitted ==
    [][ (IsSave(last') /\ last'.outcome = "returned")
        => /\ Cardinality(Ids(products') \ Ids(products)) = last'.ret[1]
           /\ Cardinality(Ids(prices') \ Ids(prices)) = last'.ret[2]
           /\ Ids(products) \subseteq Ids(products')
           /\ Ids(prices) \subseteq Ids(prices')
      ]_vars

\* C35: Under concurrent save_scraped_products calls for the same store,
\* the committed table never holds two product rows with one (store_id,
\* url), and every call that has returned has its price row committed and
\* attached to the product of its record's url.
C35_ConcurrentBatchSafe ==
    /\ \A p, q \in products :
          (p.store_id = q.store_id /\ p.url = q.url) => p.id = q.id
    /\ \A c \in Clients :
          conns[c].pc = "returned"
          => \E pr \in prices :
                /\ pr.id \in conns[c].price_ids
                /\ \E p \in products : /\ p.id = pr.product_id
                                       /\ p.store_id = conns[c].store_id
                                       /\ p.url = conns[c].product.url

\* C36: Referential integrity.  After every call each price row references
\* an existing product and each product an existing store; and every price
\* row a batch save appends belongs to a product of the batch's store whose
\* url is that of a record of the batch carrying that price and currency.
C36_ReferentialIntegrity ==
    [][ /\ \A pr \in prices' : \E p \in products' : p.id = pr.product_id
        /\ \A p \in products' : \E s \in stores' : s.id = p.store_id
        /\ IsSave(last')
           => \A pr \in prices' :
                 pr.id \notin Ids(prices)
                 => \E p \in products', i \in DOMAIN last'.products :
                       /\ p.id = pr.product_id
                       /\ p.store_id = last'.store_id
                       /\ "url" \in DOMAIN last'.products[i]
                       /\ "price" \in DOMAIN last'.products[i]
                       /\ p.url = last'.products[i].url
                       /\ pr.price = last'.products[i].price
                       /\ pr.currency = Get(last'.products[i], "currency",
                                            DefaultCurrency)
      ]_vars

\* C36 witness: the second batch starts with a record that fails (it has
\* no price) and goes on with a valid record of another url, whose product
\* existed; the price of the valid record is attached to that product.
C36_Witness ==
    /\ SavedClean(last)
    /\ now = 2
    /\ Len(last.products) = 2
    /\ LacksPrice(last.products[1])
    /\ Valid(last.products[2])
    /\ last.products[1].url # last.products[2].url
    /\ last.ret = <<0, 1>>
    /\ \E pr \in prices, p \in products :
          /\ pr.scraped_at = 2
          /\ pr.product_id = p.id
          /\ p.url = last.products[2].url
          /\ p.last_scraped_at = 1

\* C37: Re-saving an existing product never erases data.  A batch save
\* keeps every product row; the image of an existing product changes only
\* to the non-empty image of a record of the batch with its url, and its
\* category_id only to the non-null category id such a record resolves to.
C37_ResaveKeepsData ==
    [][ IsSave(last')
        => \A p \in products :
              \E q \in products' :
                 /\ q.id = p.id
                 /\ q.image # p.image
                    => \E i \in DOMAIN last'.products :
                          /\ "url" \in DOMAIN last'.products[i]
                          /\ last'.products[i].url = p.url
                          /\ p.store_id = last'.store_id
                          /\ Truthy(Get(last'.products[i], "image", None))
                          /\ q.image = last'.products[i].image
                 /\ q.category_id # p.category_id
                    => \E i \in DOMAIN last'.products :
                          /\ "url" \in DOMAIN last'.products[i]
                          /\ last'.products[i].url = p.url
                          /\ p.store_id = last'.store_id
                          /\ q.category_id # NULL
                          /\ q.category_id =
                               EffectiveCategory(last'.products[i],
                                                 last'.category_slug)
      ]_vars

\* C37 witness: a product stored with image "i1" and category "gpu" is
\* saved again by a record without image whose slug "cpu" names no
\* category, and keeps both.
C37_Witness ==
    /\ SavedClean(last)
    /\ now = 2
    /\ last.category_slug = None
    /\ last.products = <<[name |-> "B", price |-> 10, url |-> "u2",
                          category |-> "cpu"]>>
    /\ last.ret = <<0, 1>>
    /\ \E p \in products : /\ p.url = "u2"
                           /\ p.store_id = last.store_id
                           /\ p.image = "i1"
                           /\ p.category_id = 1

\* C38: An empty batch is a no-op.  save_scraped_products([]) returns
\* (0, 0) and save_products([]) returns 0; neither opens a transaction nor
\* resolves the store of the source URL, and no table or sequence changes.
C38_EmptyBatchNoOp ==
    [][ /\ (IsSave(last') /\ last'.products = <<>>)
           => /\ last'.outcome = "returned"
              /\ last'.ret = <<0, 0>>
              /\ ~last'.committed
              /\ last'.store_id = NULL
              /\ UNCHANGED dbVars
        /\ (last'.op = "save_products" /\ last'.products = <<>>)
           => /\ last'.ret = 0
              /\ UNCHANGED dbVars
      ]_vars

\* C38 witness: the empty batch is saved for "https://shop.test/list",
\* whose store does not exist, through the repository and through
\* save_products.
C38_Witness ==
    /\ IsSave(last)
    /\ last.products = <<>>
    /\ last.source_url = UrlShopList
    /\ last.ret = <<0, 0>>
    /\ stores = {}

C38_WitnessSaveProducts ==
    /\ last.op = "save_products"
    /\ last.products = <<>>
    /\ last.url = UrlShopList
    /\ last.ret = 0
    /\ stores = {}

\* the entries of provider p's file that are dicts with a true `enabled`
\* flag and the url u
EnabledWithUrl(config, u) ==
    {i \in DOMAIN config.targets :
        /\ config.targets[i].type = "dict"
        /\ Get(config.targets[i].value, "enabled", FALSE)
        /\ Get(config.targets[i].value, "url", None) = u}

\* C39: Only enabled targets are attempted.  Of a provider and a URL there
\* are no more attempts, saves and detail entries than the provider's file
\* holds targets with that URL and a true `enabled` flag; total_urls is the
\* number of attempts, and total_providers the number of discovered
\* provider configurations.
C39_OnlyEnabledAttempted ==
    RanAuto(last)
    => LET configs == last.discovered.configs
           attempts == last.run.attempts
           details == last.run.ret.details
       IN  /\ last.run.ret.total_providers = Len(configs)
           /\ last.run.ret.total_urls = Len(attempts)
           /\ Len(details) = Len(attempts)
           /\ \A i \in DOMAIN attempts : attempts[i].provider \in DOMAIN configs
           /\ \A i \in DOMAIN details : details[i].provider \in DOMAIN configs
           /\ \A p \in DOMAIN configs, u \in {UrlGpu, UrlList, None} :
                 LET n == IF configs[p].raises THEN 0
                          ELSE Cardinality(EnabledWithUrl(configs[p], u))
                 IN  /\ Cardinality({i \in OfProvider(attempts, p) :
                                       attempts[i].url = u}) <= n
                     /\ Cardinality({i \in OfProvider(details, p) :
                                       details[i].url = u}) <= n

\* C39 witness: provider 1 lists a target without the flag and a target
\* with a false flag, provider 2 an enabled target and a target with a
\* false flag: one target is attempted, and two providers are counted.
C39_Witness ==
    /\ RanAuto(last)
    /\ Len(last.discovered.configs) = 2
    /\ last.discovered.configs[1].targets =
         <<[type |-> "dict", value |-> [url |-> UrlList, category |-> "cpu"]],
           [type |-> "dict", value |-> [url |-> UrlGpu, enabled |-> FALSE]]>>
    /\ last.discovered.configs[2].targets =
         <<[type |-> "dict", value |-> [url |-> UrlList, enabled |-> TRUE]],
           [type |-> "dict", value |-> [url |-> UrlGpu, enabled |-> FALSE]]>>
    /\ last.run.ret.total_providers = 2
    /\ last.run.ret.total_urls = 1
    /\ Len(last.run.attempts) = 1
    /\ last.run.attempts[1].provider = 2
    /\ last.run.attempts[1].url = UrlList
    /\ Len(last.run.ret.details) = 1

\* the elements of a sequence
Range(seq) == {seq[i] : i \in DOMAIN seq}

\* C40: Migration bookkeeping is atomic.  A version is recorded in
\* schema_migrations exactly when its UP SQL is committed and not undone.
\* apply_migration changes nothing but its own version, which it records
\* together with the UP SQL or not at all, and which is applied when it
\* returns True; rollback_migration likewise removes the record together
\* with the DOWN SQL.  migrate_up calls apply_migration on the pending
\* versions in ascending order, every call but the last applies its
\* version, a run that exits with 0 has applied every pending version, and
\* the pending versions after the last call stay unapplied.
C40_MigrationAtomic ==
    [][ /\ schema_migrations' = schema'
        /\ last'.op = "apply_migration"
           => /\ schema_migrations' \in
                   {schema_migrations, schema_migrations \cup {last'.version}}
              /\ last'.ret => last'.version \in schema_migrations'
              /\ (last'.fault \in {"connect", "sql", "bookkeeping",
                                   "commit_aborted"} \/ ~last'.up)
                 => UNCHANGED migrationVars
        /\ last'.op = "rollback_migration"
           => /\ schema_migrations' \in
                   {schema_migrations, schema_migrations \ {last'.version}}
              /\ last'.ret => last'.version \notin schema_migrations'
              /\ (last'.fault \in {"connect", "sql", "bookkeeping",
                                   "commit_aborted"} \/ ~last'.down)
                 => UNCHANGED migrationVars
        /\ last'.op = "migrate_up"
           => LET pending == last'.files \ schema_migrations
                  attempted == last'.attempted
              IN  /\ Range(attempted) \subseteq pending
                  /\ \A i, j \in DOMAIN attempted :
                        i < j => attempted[i] < attempted[j]
                  /\ \A p \in pending, i \in DOMAIN attempted :
                        p < attempted[i] => p \in Range(attempted)
                  /\ \A i \in DOMAIN attempted :
                        i < Len(attempted)
                        => attempted[i] \in schema_migrations'
                  /\ last'.exit = 0
                     => /\ Range(attempted) = pending
                        /\ pending \subseteq schema_migrations'
                  /\ last'.exit = 1 => attempted # <<>>
                  /\ schema_migrations \subseteq schema_migrations'
                  /\ schema_migrations' \subseteq
                        schema_migrations \cup Range(attempted)
      ]_vars

\* C40 witness: with version 1 recorded, `migrate up` over the files 1, 2
\* and 3 fails on version 2 and leaves versions 2 and 3 unapplied.
C40_Witness ==
    /\ last.op = "migrate_up"
    /\ last.files = {1, 2, 3}
    /\ last.attempted = <<2>>
    /\ last.exit = 1
    /\ schema_migrations = {1}
    /\ schema = {1}

C40_WitnessRollback ==
    /\ last.op = "rollback_migration"
    /\ last.version = 2
    /\ last.ret
    /\ schema_migrations = {1, 3}

====
